---------------------------- MODULE Spec2Model ----------------------------
(***************************************************************************)
(* DNC Checker: registration, credential login, stateless 8-hour sessions, *)
(* the route guard and the two protected gateway operations                *)
(* (POST /api/dnc-lookup, POST /api/dnc-history) over the shared MSSQL    *)
(* connection pool.                                                        *)
(*                                                                         *)
(* Strings are sequences of one-character strings, so that trim(),         *)
(* toLowerCase(), replace(/\D/g, "") and split("/") are computed and not   *)
(* assumed.  A JSON value is a record [t, v]: t is the JSON type and v the *)
(* characters of the value.                                                *)
(***************************************************************************)
EXTENDS Integers, Sequences, FiniteSets, TLC

VARIABLES
    users,      \* rows of [dbo].[users], in insertion order
    nextId,     \* next IDENTITY(1,1) value of [dbo].[users].[id]
    clock,      \* current time, in ticks of TickSeconds seconds
    issued,     \* the session tokens the issuer has minted so far
    nodeEnv,    \* process.env.NODE_ENV
    dbConfig,   \* the DB_* variables of process.env that are set
    signedOut,  \* the tokens whose holder has signed out (the browser's cookie is gone)
    poolRef,    \* _prodPool / global._mssqlPool: 0 = undefined, else the pool's number
    poolUp,     \* .connected of the referenced pool
    poolsMade,  \* how many pools sql.connect() has created
    dropped,    \* the pools that have emitted "error" after their connection dropped
    dbUp,       \* whether the database server is reachable
    pending,    \* register requests whose INSERT is in flight
    last        \* the last request served: operation, input, response, collaborator calls

vars ==
    <<users, nextId, clock, issued, nodeEnv, dbConfig, signedOut, poolRef, poolUp, poolsMade,
      dropped, dbUp, pending, last>>

-----------------------------------------------------------------------------
(* Bounds of the model *)

MaxClock == 3
MaxTokens == 1
MaxPools == 2
MaxId == 3
MaxInflight == 2

-----------------------------------------------------------------------------
(* Characters and strings *)

Digits == {"0", "1", "2", "3", "4", "5", "6", "7", "8", "9"}

DigitChar == <<"0", "1", "2", "3", "4", "5", "6", "7", "8", "9">>

\* the decimal digits ds (numbers 0..9) as a string
Digs(ds) == [i \in 1..Len(ds) |-> DigitChar[ds[i] + 1]]

DigitVal(c) == CHOOSE n \in 0..9 : DigitChar[n + 1] = c

IsDigit(c) == c \in Digits

AllDigits(s) == \A i \in 1..Len(s) : IsDigit(s[i])

\* JS whitespace, as far as the inputs of the model have any
IsSpace(c) == c = " "

RECURSIVE TrimStart(_)
TrimStart(s) ==
    IF s # <<>> /\ IsSpace(Head(s)) THEN TrimStart(Tail(s)) ELSE s

RECURSIVE TrimEnd(_)
TrimEnd(s) ==
    IF s # <<>> /\ IsSpace(s[Len(s)]) THEN TrimEnd(SubSeq(s, 1, Len(s) - 1)) ELSE s

\* String.prototype.trim
Trim(s) == TrimEnd(TrimStart(s))

LowerChar(c) ==
    CASE c = "A" -> "a"
      [] c = "B" -> "b"
      [] c = "X" -> "x"
      [] OTHER -> c

\* String.prototype.toLowerCase
ToLowerCase(s) == [i \in 1..Len(s) |-> LowerChar(s[i])]

\* String.prototype.includes, for a one-character needle
Includes(s, c) == \E i \in 1..Len(s) : s[i] = c

\* String.prototype.slice(-n)
SliceLast(s, n) == IF Len(s) <= n THEN s ELSE SubSeq(s, Len(s) - n + 1, Len(s))

RECURSIVE Split(_, _)
\* String.prototype.split(sep), for a one-character separator
Split(s, sep) ==
    IF \E i \in 1..Len(s) : s[i] = sep
    THEN LET i == CHOOSE k \in 1..Len(s) : s[k] = sep /\ \A j \in 1..(k - 1) : s[j] # sep
         IN  <<SubSeq(s, 1, i - 1)>> \o Split(SubSeq(s, i + 1, Len(s)), sep)
    ELSE <<s>>

-----------------------------------------------------------------------------
(* JSON values *)

JStr(s) == [t |-> "string", v |-> s]
JNum(s) == [t |-> "number", v |-> s]
JNull == [t |-> "null", v |-> <<>>]
JUndef == [t |-> "undefined", v |-> <<>>]

\* x ?? dflt
Nullish(x) == x.t \in {"null", "undefined"}

\* !x
Falsy(x) ==
    \/ Nullish(x)
    \/ x.t = "string" /\ x.v = <<>>
    \/ x.t = "number" /\ x.v = <<"0">>


-----------------------------------------------------------------------------
(* Session issuer and route guard (NextAuth, strategy "jwt") *)

\* the length of a clock tick, in seconds: four hours
TickSeconds == 4 * 60 * 60

\* maxAge as a nine-hour session would set it
MaxAgeNineHours == 9 * 60 * 60

\* authOptions.session.maxAge, in seconds
maxAge == 8 * 60 * 60

\* the authentication tag of a token's payload under the process-wide secret
Sign(uid, iat, exp) == <<"NEXTAUTH_SECRET", uid, iat, exp>>

\* the token NextAuth mints for identity uid at time now (in ticks)
IssueToken(uid, now) ==
    [uid |-> uid,
     iat |-> now * TickSeconds,
     exp |-> now * TickSeconds + maxAge,
     sig |-> Sign(uid, now * TickSeconds, now * TickSeconds + maxAge)]

\* a request that carries no session cookie
NoToken == [uid |-> "", iat |-> 0, exp |-> 0, sig |-> <<"none", "", 0, 0>>]

\* what a client can make of a token t without the secret: every altered field
\* leaves a tag that no longer belongs to the payload
Tampered(t) ==
    {[t EXCEPT !.sig = <<"attacker-key", t.uid, t.iat, t.exp>>],
     [t EXCEPT !.exp = t.exp + maxAge],
     [t EXCEPT !.iat = t.iat + TickSeconds],
     [t EXCEPT !.uid = "0"]}

\* the tokens a request can carry in the current state
Presentable == {NoToken} \cup issued \cup UNION {Tampered(t) : t \in issued}

\* getServerSession(authOptions): a session, or null (FALSE)
getServerSession(token, now) ==
    /\ token.sig = Sign(token.uid, token.iat, token.exp)
    /\ now * TickSeconds < token.exp

-----------------------------------------------------------------------------
(* The logger (lib/logger): phone masking and transports *)

\* \w: a letter, a digit or the underscore; every character of the model that is
\* neither punctuation nor blank is one
IsWordChar(c) ==
    c \notin {" ", "(", ")", "-", ".", ",", ":", "/", "@", "*", "[", "]", "'", "mdash"}

\* [-.\s]
IsSeparator(c) == c \in {"-", "."} \/ IsSpace(c)

\* \d{n} at position i of s
DigitsAt(s, i, n) == i >= 1 /\ i + n - 1 <= Len(s) /\ \A k \in i..(i + n - 1) : IsDigit(s[k])

\* the length of the longest run of whitespace at position i of s (\s*, greedy)
RECURSIVE SpacesAt(_, _)
SpacesAt(s, i) == IF i <= Len(s) /\ IsSpace(s[i]) THEN 1 + SpacesAt(s, i + 1) ELSE 0

\* /\(\d{3}\)\s*\d{3}-(\d{4})/ at position i: the length of the match, or 0
MatchFormatted(s, i) ==
    LET k == SpacesAt(s, i + 5)
    IN  IF /\ i + 4 <= Len(s)
           /\ s[i] = "("
           /\ DigitsAt(s, i + 1, 3)
           /\ s[i + 4] = ")"
           /\ DigitsAt(s, i + 5 + k, 3)
           /\ i + 8 + k <= Len(s)
           /\ s[i + 8 + k] = "-"
           /\ DigitsAt(s, i + 9 + k, 4)
        THEN 13 + k
        ELSE 0

\* /\d{3}[-.\s]\d{3}[-.\s](\d{4})/ at position i: the length of the match, or 0
MatchSeparated(s, i) ==
    IF /\ i + 11 <= Len(s)
       /\ DigitsAt(s, i, 3)
       /\ IsSeparator(s[i + 3])
       /\ DigitsAt(s, i + 4, 3)
       /\ IsSeparator(s[i + 7])
       /\ DigitsAt(s, i + 8, 4)
    THEN 12
    ELSE 0

\* /\b\d{6}(\d{4})\b/ at position i: the length of the match, or 0
MatchRaw(s, i) ==
    IF /\ DigitsAt(s, i, 10)
       /\ i = 1 \/ ~IsWordChar(s[i - 1])
       /\ i + 10 > Len(s) \/ ~IsWordChar(s[i + 10])
    THEN 10
    ELSE 0

\* the replacement "***-***-$1" for a match that ends at position j
Stars == <<"*", "*", "*", "-", "*", "*", "*", "-">>
MaskedTail(s, j) == Stars \o SubSeq(s, j - 3, j)

\* the length of the match of one of the three patterns at position i of s, or 0
MatchAt(pattern, s, i) ==
    CASE pattern = "formatted" -> MatchFormatted(s, i)
      [] pattern = "separated" -> MatchSeparated(s, i)
      [] pattern = "raw" -> MatchRaw(s, i)

\* text.replace(pattern, "***-***-$1") with the g flag, from position i on: the
\* leftmost match is replaced and the scan goes on behind it
RECURSIVE ReplaceFrom(_, _, _)
ReplaceFrom(pattern, s, i) ==
    IF i > Len(s) THEN <<>>
    ELSE LET n == MatchAt(pattern, s, i)
         IN  IF n > 0
             THEN MaskedTail(s, i + n - 1) \o ReplaceFrom(pattern, s, i + n)
             ELSE <<s[i]>> \o ReplaceFrom(pattern, s, i + 1)

\* mask: the three replacements, in the order of the source
Mask(text) ==
    ReplaceFrom("raw", ReplaceFrom("separated", ReplaceFrom("formatted", text, 1), 1), 1)

\* a call of logger.info / logger.error: the info object winston builds
LogRecord(level, message, meta) == [level |-> level, message |-> message, meta |-> meta]

\* the format maskPhoneNumbers: the message and every string field of the top level
MaskInfo(info) ==
    [level |-> info.level,
     message |-> Mask(info.message),
     meta |-> [k \in DOMAIN info.meta |->
                  IF info.meta[k].t = "string"
                  THEN [t |-> "string", v |-> Mask(info.meta[k].v)]
                  ELSE info.meta[k]]]

\* what a transport writes for a record
Written(sink, info) == [sink |-> sink, info |-> info]

\* consoleTransport and fileTransport: each combines maskPhoneNumbers() with its
\* own rendering
Transports(info) == <<Written("console", MaskInfo(info)), Written("file", MaskInfo(info))>>

\* what the logger's transports write for the records of one request, in order
RECURSIVE Emit(_)
Emit(records) ==
    IF records = <<>> THEN <<>> ELSE Transports(Head(records)) \o Emit(Tail(records))

\* exceptionHandlers: a Console and a DailyRotateFile transport created without a
\* format, so that the record is written as it is
ExceptionHandlers(info) ==
    <<Written("exceptions console", info), Written("exceptions file", info)>>

\* rejectionHandlers: likewise
RejectionHandlers(info) ==
    <<Written("rejections console", info), Written("rejections file", info)>>

TxtUncaught == <<"u", "n", "c", "a", "u", "g", "h", "t", "E", "x", "c", "e", "p", "t", "i", "o", "n", ":", " ">>
TxtUnhandled == <<"u", "n", "h", "a", "n", "d", "l", "e", "d", "R", "e", "j", "e", "c", "t", "i", "o", "n", ":", " ">>

\* the record winston builds for an uncaught exception or an unhandled rejection
\* with the message text
ExceptionInfo(prefix, text) ==
    LogRecord("error", prefix \o text, [stack |-> [t |-> "string", v |-> text]])

\* what the sinks write for the event r: a call of the logger, an uncaught
\* exception, an unhandled rejection
WrittenFor(r) ==
    IF r.op = "exception"
    THEN ExceptionHandlers(ExceptionInfo(TxtUncaught, r.body.text))
    ELSE IF r.op = "rejection"
    THEN RejectionHandlers(ExceptionInfo(TxtUnhandled, r.body.text))
    ELSE Emit(r.log)

\* a number as template literals write it
RECURSIVE Decimal(_)
Decimal(n) == IF n < 10 THEN <<DigitChar[n + 1]>> ELSE Decimal(n \div 10) \o <<DigitChar[(n % 10) + 1]>>

\* the literal parts of the log messages; the em dash is the one character "mdash"
TxtHistoryPhone ==
    <<"P", "O", "S", "T", " ", "/", "a", "p", "i", "/", "d", "n", "c", "-", "h", "i",
      "s", "t", "o", "r", "y", " ", "mdash", " ", "p", "h", "o", "n", "e", ":", " ">>
TxtLookupPhone ==
    <<"P", "O", "S", "T", " ", "/", "a", "p", "i", "/", "d", "n", "c", "-", "l", "o",
      "o", "k", "u", "p", " ", "mdash", " ", "p", "h", "o", "n", "e", ":", " ">>
TxtDate ==
    <<",", " ", "d", "a", "t", "e", ":", " ">>
TxtDash ==
    <<" ", "mdash", " ">>
TxtRowsReturned ==
    <<" ", "r", "o", "w", "(", "s", ")", " ", "r", "e", "t", "u", "r", "n", "e", "d",
      " ", "(">>
TxtMs ==
    <<"m", "s", ")">>
TxtHistoryError ==
    <<"P", "O", "S", "T", " ", "/", "a", "p", "i", "/", "d", "n", "c", "-", "h", "i",
      "s", "t", "o", "r", "y", " ", "mdash", " ", "u", "n", "h", "a", "n", "d", "l",
      "e", "d", " ", "e", "r", "r", "o", "r">>
TxtLookupError ==
    <<"P", "O", "S", "T", " ", "/", "a", "p", "i", "/", "d", "n", "c", "-", "l", "o",
      "o", "k", "u", "p", " ", "mdash", " ", "u", "n", "h", "a", "n", "d", "l", "e",
      "d", " ", "e", "r", "r", "o", "r">>
TxtErrMessage ==
    <<"F", "a", "i", "l", "e", "d", " ", "t", "o", " ", "c", "o", "n", "n", "e", "c",
      "t">>
TxtErrStack ==
    <<"C", "o", "n", "n", "e", "c", "t", "i", "o", "n", "E", "r", "r", "o", "r", ":",
      " ", "F", "a", "i", "l", "e", "d", " ", "t", "o", " ", "c", "o", "n", "n", "e",
      "c", "t", " ", "a", "t", " ", "g", "e", "t", "P", "o", "o", "l">>

-----------------------------------------------------------------------------
(* Connection pool (lib/db) *)

\* the condition under which getPool() creates a pool
PoolNeeded == poolRef = 0 \/ ~poolUp

\* the variables buildConfig() requires
RequiredEnv == {"DB_SERVER", "DB_DATABASE", "DB_USER", "DB_PASSWORD"}

\* buildConfig() returns a configuration (it throws when a variable is missing)
BuildConfigOk == RequiredEnv \subseteq dbConfig

\* getPool() rejects: buildConfig() throws, or sql.connect cannot reach the server
GetPoolThrows == PoolNeeded /\ (~BuildConfigOk \/ ~dbUp)

\* the state of the pool after a call of getPool()
GetPoolEffect ==
    IF PoolNeeded /\ BuildConfigOk /\ dbUp
    THEN /\ poolsMade < MaxPools
         /\ poolsMade' = poolsMade + 1
         /\ poolRef' = poolsMade + 1
         /\ poolUp' = TRUE
         /\ UNCHANGED dropped
    ELSE UNCHANGED <<poolRef, poolUp, poolsMade, dropped>>

-----------------------------------------------------------------------------
(* Responses and collaborator calls *)

\* NextResponse.json(body, {status}); the status defaults to 200
Json(status, body) == [status |-> status, body |-> body]

\* a failure response whose 500 carries the message of the caught error
FailureWithErrorText(status, msg) ==
    Json(status, [success |-> FALSE,
                  error |-> IF status = 500 THEN "ConnectionError: Failed to connect to db:1433"
                            ELSE msg])

\* a failure response: success false and a literal message
Failure(status, msg) == Json(status, [success |-> FALSE, error |-> msg])

\* await getPool()
CallGetPool == [fn |-> "getPool"]

\* pool.request().input(...).execute(proc)
CallExecute(proc, params) == [fn |-> "execute", proc |-> proc, params |-> params]

\* what the decision service answers to one execution
Fault == [fault |-> TRUE, rows |-> <<>>]

Rows(rs) == [fault |-> FALSE, rows |-> rs]

\* a cell of a result row as JSON.stringify writes it: a Date becomes its ISO string
JsonCell(c) == IF c.t = "date" THEN [t |-> "string", v |-> c.v] ELSE c

\* a result row as JSON.stringify writes it
JsonRow(r) == [k \in DOMAIN r |-> JsonCell(r[k])]

\* ResponseData as a gateway that loses the first row would compute it
ResponseDataDropsFirst(rows) == IF rows = <<>> THEN <<>> ELSE Tail([i \in 1..Len(rows) |-> JsonRow(rows[i])])

\* the data member of a success response: result.recordset, serialized
ResponseData(rows) == [i \in 1..Len(rows) |-> JsonRow(rows[i])]

\* what a request leaves behind: its input, its response, the collaborator calls it
\* made, what the database answered (ans: a fault, or rows), the audit line of a
\* sign-in, the records a gateway request handed to the logger, and the parity of
\* the number of requests served so far
Served(op, token, body, resp, calls, ans) ==
    [op |-> op, token |-> token, body |-> body, resp |-> resp, calls |-> calls,
     ans |-> ans, audit |-> "", log |-> <<>>, seq |-> 1 - last.seq]

\* logger.info / logger.warn / logger.error is called with the record info
LoggerCall(info) ==
    /\ last' = [Served("log", NoToken, info, Json(0, [success |-> FALSE, error |-> ""]), <<>>,
                       Fault)
                   EXCEPT !.log = <<info>>]
    /\ UNCHANGED <<users, nextId, clock, issued, nodeEnv, dbConfig, signedOut, poolRef, poolUp,
                   poolsMade, dropped, dbUp, pending>>

\* an exception with the message text escapes every handler
UncaughtException(text) ==
    /\ last' = Served("exception", NoToken, [text |-> text],
                      Json(0, [success |-> FALSE, error |-> ""]), <<>>, Fault)
    /\ UNCHANGED <<users, nextId, clock, issued, nodeEnv, dbConfig, signedOut, poolRef, poolUp,
                   poolsMade, dropped, dbUp, pending>>

\* a promise is rejected with the message text and nothing handles it
UnhandledRejection(text) ==
    /\ last' = Served("rejection", NoToken, [text |-> text],
                      Json(0, [success |-> FALSE, error |-> ""]), <<>>, Fault)
    /\ UNCHANGED <<users, nextId, clock, issued, nodeEnv, dbConfig, signedOut, poolRef, poolUp,
                   poolsMade, dropped, dbUp, pending>>

-----------------------------------------------------------------------------
(* Phone and date validation of the gateway *)

\* digit-stripping that also drops the country code 1 of an 11-digit number
StripAndDropCountryCode(s) ==
    LET d == SelectSeq(s, IsDigit)
    IN  IF Len(d) = 11 /\ d[1] = "1" THEN Tail(d) ELSE d

\* phone.replace(/\D/g, "")
StripNonDigits(s) == SelectSeq(s, IsDigit)

\* a length check that lets an 11-digit number through
PhoneLengthAtLeast10(raw) == Len(raw) >= 10

\* rawPhone.length !== 10 is false
PhoneLengthOk(raw) == Len(raw) = 10

Undefined == <<"u", "n", "d", "e", "f", "i", "n", "e", "d">>

\* element i of an array as a template literal prints it
Part(parts, i) == IF i <= Len(parts) THEN parts[i] ELSE Undefined

\* `${year}-${month}-${day}` of lookupDate.split("/")
IsoOf(lookupDate) ==
    LET parts == Split(lookupDate, "/")
    IN  Part(parts, 3) \o <<"-">> \o Part(parts, 1) \o <<"-">> \o Part(parts, 2)

RECURSIVE NumVal(_)
\* the number a string of digits denotes
NumVal(s) == IF s = <<>> THEN 0 ELSE 10 * NumVal(SubSeq(s, 1, Len(s) - 1)) + DigitVal(s[Len(s)])

IsLeap(y) == (y % 4 = 0 /\ y % 100 # 0) \/ y % 400 = 0

DaysInMonth(y, m) ==
    CASE m \in {4, 6, 9, 11} -> 30
      [] m = 2 -> IF IsLeap(y) THEN 29 ELSE 28
      [] OTHER -> 31

\* Invalid Date: getTime() is NaN
InvalidDate == [valid |-> FALSE, y |-> 0, m |-> 0, d |-> 0]

\* the date the engine makes of year y, month m, day d: the month is 1..12 and
\* the day 1..31, and a day past the end of the month runs on into the next one
DateOf(y, m, d) ==
    IF m \in 1..12 /\ d \in 1..31
    THEN IF d <= DaysInMonth(y, m)
         THEN [valid |-> TRUE, y |-> y, m |-> m, d |-> d]
         ELSE [valid |-> TRUE, y |-> y, m |-> m + 1, d |-> d - DaysInMonth(y, m)]
    ELSE InvalidDate

\* new Date(iso), for the strings YYYY-MM-DD of digits and for strings that hold
\* no number in that shape (which are Invalid Date)
NewDate(iso) ==
    LET parts == Split(iso, "-")
    IN  IF /\ Len(parts) = 3
           /\ Len(parts[1]) = 4 /\ Len(parts[2]) = 2 /\ Len(parts[3]) = 2
           /\ \A i \in 1..3 : AllDigits(parts[i])
        THEN DateOf(NumVal(parts[1]), NumVal(parts[2]), NumVal(parts[3]))
        ELSE InvalidDate

\* MM/DD/YYYY
DateStr(m, d, y) == Digs(m) \o <<"/">> \o Digs(d) \o <<"/">> \o Digs(y)

DateStrings ==
    {DateStr(<<0, 1>>, <<1, 5>>, <<2, 0, 2, 4>>),
     DateStr(<<0, 2>>, <<2, 9>>, <<2, 0, 2, 4>>),
     DateStr(<<0, 2>>, <<2, 9>>, <<2, 0, 2, 3>>),
     DateStr(<<0, 2>>, <<3, 0>>, <<2, 0, 2, 4>>),
     DateStr(<<0, 4>>, <<3, 1>>, <<2, 0, 2, 4>>),
     DateStr(<<1, 2>>, <<3, 1>>, <<2, 0, 2, 4>>),
     DateStr(<<1, 3>>, <<0, 1>>, <<2, 0, 2, 4>>),
     DateStr(<<0, 2>>, <<3, 2>>, <<2, 0, 2, 4>>),
     DateStr(<<0, 0>>, <<1, 0>>, <<2, 0, 2, 4>>),
     <<"a", "b", "c">>,
     <<>>}

\* the dates of the requests, each parsed as the lookup handler parses it
ParsedDate == [lookupDate \in DateStrings |-> NewDate(IsoOf(lookupDate))]

-----------------------------------------------------------------------------
(* The protected gateway operations *)

\* the request body: req.json() throws, or yields null, or yields an object
GatewayBody(parse, phoneNumber, lookupDate) ==
    [parse |-> parse, phoneNumber |-> phoneNumber, lookupDate |-> lookupDate]

\* what a handler run yields: the response and the collaborator calls made
Ran(resp, calls) == [resp |-> resp, calls |-> calls]

\* (phoneNumber ?? "")
PhoneText(phoneNumber) == IF Nullish(phoneNumber) THEN <<>> ELSE phoneNumber.v

\* an evaluation that throws TypeError: destructuring null, or a string method
\* called on a value that is not a string
PhoneThrows(body) ==
    \/ body.parse = "null"
    \/ ~Nullish(body.phoneNumber) /\ body.phoneNumber.t # "string"

\* POST /api/dnc-history, after the auth guard: the try block and its catch
HistoryHandle(body, ans) ==
    LET rawPhone == StripNonDigits(PhoneText(body.phoneNumber))
        failed == Failure(500, "History lookup failed. Please try again.")
        exec == CallExecute("dbo.sp_dnc_history", [PhoneNumber |-> rawPhone])
    IN  IF body.parse = "error"
        THEN Ran(Failure(400, "Invalid request body"), <<>>)
        ELSE IF PhoneThrows(body)
        THEN Ran(failed, <<>>)
        ELSE IF ~PhoneLengthOk(rawPhone)
        THEN Ran(Failure(400, "A valid 10-digit US phone number is required"), <<>>)
        ELSE IF GetPoolThrows
        THEN Ran(failed, <<CallGetPool>>)
        ELSE IF ans.fault
        THEN Ran(failed, <<CallGetPool, exec>>)
        ELSE Ran(Json(200, [success |-> TRUE, data |-> ResponseData(ans.rows)]),
                 <<CallGetPool, exec>>)

\* Date.now() - startTime, in milliseconds
ElapsedValues == {7, 15}

\* a masked phone that shows the first six digits and hides the last four
MaskedPhoneFirstSix(rawPhone) == SubSeq(rawPhone, 1, 6) \o <<"-", "*", "*", "*", "*">>

\* `***-***-${rawPhone.slice(-4)}`
MaskedPhone(rawPhone) == Stars \o SliceLast(rawPhone, 4)

\* the metadata of the error line of a catch block
ErrorMeta(elapsed) ==
    [err |-> JStr(TxtErrMessage), stack |-> JStr(TxtErrStack), elapsed |-> JNum(Decimal(elapsed))]

\* none: the metadata of an info line
NoMeta == [k \in {} |-> JNull]

\* a catch block that responds without logging
GatewayLogSilent(r, prefix, dateText, errorLine, body, ans, elapsed) ==
    IF r.calls # <<>>
    THEN <<LogRecord("info",
                     prefix \o MaskedPhone(StripNonDigits(PhoneText(body.phoneNumber)))
                         \o dateText,
                     NoMeta)>>
    ELSE <<>>

\* the logger calls of a gateway handler run r: the line before getPool(), the line
\* before the success return, the line of the catch block
GatewayLog(r, prefix, dateText, errorLine, body, ans, elapsed) ==
    LET masked == MaskedPhone(StripNonDigits(PhoneText(body.phoneNumber)))
        before == IF r.calls # <<>>
                  THEN <<LogRecord("info", prefix \o masked \o dateText, NoMeta)>>
                  ELSE <<>>
        after == IF r.resp.status = 200
                 THEN <<LogRecord("info",
                                  prefix \o masked \o TxtDash \o Decimal(Len(ans.rows))
                                      \o TxtRowsReturned \o Decimal(elapsed) \o TxtMs,
                                  NoMeta)>>
                 ELSE <<>>
        caught == IF r.resp.status = 500
                  THEN <<LogRecord("error", errorLine, ErrorMeta(elapsed))>>
                  ELSE <<>>
    IN  before \o after \o caught

\* POST /api/dnc-history without its auth guard
HistoryRunUnguarded(token, body, ans) == HistoryHandle(body, ans)

\* POST /api/dnc-history
HistoryRun(token, body, ans) ==
    IF ~getServerSession(token, clock)
    THEN Ran(Failure(401, "Unauthorized"), <<>>)
    ELSE HistoryHandle(body, ans)

\* POST /api/dnc-lookup, after the auth guard: the try block and its catch
LookupHandle(body, ans) ==
    LET rawPhone == StripNonDigits(PhoneText(body.phoneNumber))
        lookupDate == body.lookupDate
        parsedDate == ParsedDate[lookupDate.v]
        failed == Failure(500, "Lookup failed. Please try again.")
        exec == CallExecute("dbo.sp_dnc_lookup",
                            [PhoneNumber |-> rawPhone, LookupDate |-> parsedDate])
    IN  IF body.parse = "error"
        THEN Ran(Failure(400, "Invalid request body"), <<>>)
        ELSE IF PhoneThrows(body)
        THEN Ran(failed, <<>>)
        ELSE IF ~PhoneLengthOk(rawPhone)
        THEN Ran(Failure(400, "A valid 10-digit US phone number is required"), <<>>)
        ELSE IF Falsy(lookupDate)
        THEN Ran(Failure(400, "Lookup date is required"), <<>>)
        ELSE IF lookupDate.t # "string"
        THEN Ran(failed, <<>>)
        ELSE IF ~parsedDate.valid
        THEN Ran(Failure(400, "Lookup date must be in MM/DD/YYYY format"), <<>>)
        ELSE IF GetPoolThrows
        THEN Ran(failed, <<CallGetPool>>)
        ELSE IF ans.fault
        THEN Ran(failed, <<CallGetPool, exec>>)
        ELSE Ran(Json(200, [success |-> TRUE, data |-> ResponseData(ans.rows)]),
                 <<CallGetPool, exec>>)

\* a guard with revocation: it also refuses the token of a holder who signed out
\* or whose account is inactive
LookupRunRevoking(token, body, ans) ==
    IF \/ ~getServerSession(token, clock)
       \/ token \in signedOut
       \/ \E i \in 1..Len(users) : ToString(users[i].id) = token.uid /\ ~users[i].is_active
    THEN Ran(Failure(401, "Unauthorized"), <<>>)
    ELSE LookupHandle(body, ans)

\* POST /api/dnc-lookup
LookupRun(token, body, ans) ==
    IF ~getServerSession(token, clock)
    THEN Ran(Failure(401, "Unauthorized"), <<>>)
    ELSE LookupHandle(body, ans)

\* one request to POST /api/dnc-history
HistoryPOST(token, body, ans) ==
    LET r == HistoryRun(token, body, ans)
    IN  /\ ans.fault \/ dbUp
        /\ \E elapsed \in ElapsedValues :
              last' = [Served("history", token, body, r.resp, r.calls,
                              IF Len(r.calls) = 2 THEN ans ELSE Fault)
                          EXCEPT !.log = GatewayLog(r, TxtHistoryPhone, <<>>, TxtHistoryError,
                                                    body, ans, elapsed)]
        /\ IF r.calls # <<>> THEN GetPoolEffect ELSE UNCHANGED <<poolRef, poolUp, poolsMade,
                                                                 dropped>>
        /\ UNCHANGED <<users, nextId, clock, issued, nodeEnv, dbConfig, signedOut, dbUp, pending>>

\* one request to POST /api/dnc-lookup
LookupPOST(token, body, ans) ==
    LET r == LookupRun(token, body, ans)
    IN  /\ ans.fault \/ dbUp
        /\ \E elapsed \in ElapsedValues :
              last' = [Served("lookup", token, body, r.resp, r.calls,
                              IF Len(r.calls) = 2 THEN ans ELSE Fault)
                          EXCEPT !.log = GatewayLog(r, TxtLookupPhone,
                                                    TxtDate \o body.lookupDate.v,
                                                    TxtLookupError, body, ans, elapsed)]
        /\ IF r.calls # <<>> THEN GetPoolEffect ELSE UNCHANGED <<poolRef, poolUp, poolsMade,
                                                                 dropped>>
        /\ UNCHANGED <<users, nextId, clock, issued, nodeEnv, dbConfig, signedOut, dbUp, pending>>

-----------------------------------------------------------------------------
(* Password hasher (bcryptjs) and the user store ([dbo].[users]) *)

MIN_USERNAME_LENGTH == 3
MAX_USERNAME_LENGTH == 100
MIN_PASSWORD_LENGTH == 8

\* bcrypt.hash(password, 12): the digest embeds the salt it was computed with
Hash(password, salt) == [salt |-> salt, pw |-> password]

\* a comparison that accepts every password
CompareAlwaysTrue(password, digest) == TRUE

\* bcrypt.compare(password, digest)
Compare(password, digest) == digest = Hash(password, digest.salt)

\* a row of [dbo].[users]; is_active defaults to 1
UserRow(id, username, email, digest) ==
    [id |-> id, username |-> username, email |-> email, password_hash |-> digest,
     is_active |-> TRUE]

\* a store whose only unique index is the one on username
UsernameViolationOnly(username, email) ==
    \E i \in 1..Len(users) : users[i].username = username

\* a store without unique indexes
NoUniqueIndex(username, email) == FALSE

\* UX_users_username and UX_users_email: the INSERT raises error 2601
UniqueViolation(username, email) ==
    \E i \in 1..Len(users) : users[i].username = username \/ users[i].email = email

\* SELECT ... FROM [dbo].[users] WHERE username = @username: the recordset
\* a SELECT that lost its WHERE clause: every row, whatever the name asked for
SelectWithoutWhere(username) == users

SelectByUsername(username) == SelectSeq(users, LAMBDA u : u.username = username)

-----------------------------------------------------------------------------
(* The routing middleware (withAuth) *)

\* config.matcher without /dnc-history
MatcherLookupOnly == {"/dnc-lookup"}

\* config.matcher
Matcher == {"/dnc-lookup", "/dnc-history"}

\* the middleware runs for the path
MiddlewareMatches(path) == path \in Matcher

\* the redirect to pages.signIn
RedirectToLogin == [status |-> 307, body |-> [redirect |-> "/login"]]

\* the request goes on to the page or the route handler
PassedOn(path) == [status |-> 200, body |-> [page |-> path]]

\* withAuth: a matched request without a valid token is redirected to /login
Middleware(path, token, now) ==
    IF MiddlewareMatches(path) /\ ~getServerSession(token, now)
    THEN RedirectToLogin
    ELSE PassedOn(path)

\* the path of each route handler
ApiPath(op) == IF op = "lookup" THEN "/api/dnc-lookup" ELSE "/api/dnc-history"

\* a page load
PageGET(path, token) ==
    /\ last' = Served("page", token, [path |-> path], Middleware(path, token, clock), <<>>,
                      Fault)
    /\ UNCHANGED <<users, nextId, clock, issued, nodeEnv, dbConfig, signedOut, poolRef, poolUp,
                   poolsMade, dropped, dbUp, pending>>

-----------------------------------------------------------------------------
(* POST /api/register *)

RegisterBody(parse, username, email, password) ==
    [parse |-> parse, username |-> username, email |-> email, password |-> password]

\* bcrypt.hash(password, 12)
CallHash == [fn |-> "bcrypt.hash"]

\* the INSERT INTO [dbo].[users]
CallInsert(username, email, digest) ==
    [fn |-> "query", proc |-> "INSERT",
     params |-> [username |-> username, email |-> email, password_hash |-> digest]]

\* the request is accepted and its INSERT not yet answered
Pending == Json(0, [success |-> FALSE, error |-> ""])

\* email.trim() without toLowerCase()
NormalEmailKeepsCase(email) == Trim(email)

\* email.trim().toLowerCase()
NormalEmail(email) == ToLowerCase(Trim(email))

\* a handler without the password length check
PasswordNeverTooShort(password) == FALSE

\* password.length < MIN_PASSWORD_LENGTH; the length of a value that is not a
\* string is undefined and the comparison false
PasswordTooShort(password) ==
    password.t = "string" /\ Len(password.v) < MIN_PASSWORD_LENGTH

\* the handler up to and including await getPool(): a response, or the INSERT to issue
RegisterRun(body, salt) ==
    LET failed == Failure(500, "Registration failed. Please try again.")
        trimmedUsername == Trim(body.username.v)
        trimmedEmail == NormalEmail(body.email.v)
        stop(resp, calls) == [resp |-> resp, calls |-> calls, insert |-> FALSE]
    IN  IF body.parse = "error"
        THEN stop(Failure(400, "Invalid request body"), <<>>)
        ELSE IF body.parse = "null"
        THEN stop(failed, <<>>)
        ELSE IF Falsy(body.username) \/ Falsy(body.email) \/ Falsy(body.password)
        THEN stop(Failure(400, "Username, email, and password are required"), <<>>)
        ELSE IF body.username.t # "string" \/ body.email.t # "string"
        THEN stop(failed, <<>>)
        ELSE IF Len(trimmedUsername) < MIN_USERNAME_LENGTH
        THEN stop(Failure(400, "Username must be at least 3 characters"), <<>>)
        ELSE IF Len(trimmedUsername) > MAX_USERNAME_LENGTH
        THEN stop(Failure(400, "Username is too long"), <<>>)
        ELSE IF ~Includes(trimmedEmail, "@") \/ ~Includes(trimmedEmail, ".")
        THEN stop(Failure(400, "Please enter a valid email address"), <<>>)
        ELSE IF PasswordTooShort(body.password)
        THEN stop(Failure(400, "Password must be at least 8 characters"), <<>>)
        ELSE IF body.password.t # "string"
        THEN stop(failed, <<CallHash>>)
        ELSE IF GetPoolThrows
        THEN stop(failed, <<CallHash, CallGetPool>>)
        ELSE [resp |-> Pending, calls |-> <<CallHash, CallGetPool>>, insert |-> TRUE]

\* the INSERT a request has in flight
InFlight(body, salt) ==
    [body |-> body,
     username |-> Trim(body.username.v),
     email |-> NormalEmail(body.email.v),
     password_hash |-> Hash(body.password.v, salt)]

\* the line the register handler logs with its response (none with a 400)
RegisterAudit(resp) ==
    CASE resp.status = 201 -> "user created"
      [] resp.status = 409 -> "duplicate user"
      [] resp.status = 500 -> "unhandled error"
      [] OTHER -> ""

\* a request arrives at POST /api/register and runs until it responds or awaits
\* its INSERT
RegisterPOST(body, salt) ==
    LET r == RegisterRun(body, salt)
    IN  /\ r.insert => Cardinality(pending) < MaxInflight
        /\ pending' = IF r.insert THEN pending \cup {InFlight(body, salt)} ELSE pending
        /\ last' = [Served("register", NoToken, body, r.resp, r.calls, Fault)
                        EXCEPT !.audit = RegisterAudit(r.resp)]
        /\ IF Len(r.calls) = 2 THEN GetPoolEffect ELSE UNCHANGED <<poolRef, poolUp, poolsMade,
                                                                   dropped>>
        /\ UNCHANGED <<users, nextId, clock, issued, nodeEnv, dbConfig, signedOut, dbUp>>

\* a catch block that does not look at the error number
InsertResponseNoConflict(fault, violation) ==
    IF fault \/ violation THEN Failure(500, "Registration failed. Please try again.")
    ELSE Json(201, [success |-> TRUE])

\* the response to an INSERT: the catch block maps error 2601 / 2627 to 409
InsertResponse(fault, violation) ==
    IF fault THEN Failure(500, "Registration failed. Please try again.")
    ELSE IF violation THEN Failure(409, "Username or email already exists")
    ELSE Json(201, [success |-> TRUE])

\* the store executes (or fails to execute) the INSERT in flight p, and the
\* handler responds
\* an INSERT turned into an upsert: on a uniqueness conflict the conflicting rows
\* take the email and the password hash of the request
RegisterUpsert(p, fault) ==
    LET violation == UniqueViolation(p.username, p.email)
        calls == <<CallHash, CallGetPool, CallInsert(p.username, p.email, p.password_hash)>>
    IN  /\ p \in pending
        /\ fault \/ dbUp
        /\ pending' = pending \ {p}
        /\ last' = [Served("register", NoToken, p.body, InsertResponse(fault, violation),
                           calls, IF fault THEN Fault ELSE Rows(<<>>))
                        EXCEPT !.audit = RegisterAudit(InsertResponse(fault, violation))]
        /\ IF fault
           THEN UNCHANGED <<users, nextId>>
           ELSE /\ nextId <= MaxId
                /\ nextId' = nextId + 1
                /\ users' = IF violation
                            THEN [i \in 1..Len(users) |->
                                     IF users[i].username = p.username \/ users[i].email = p.email
                                     THEN [users[i] EXCEPT !.email = p.email,
                                                           !.password_hash = p.password_hash]
                                     ELSE users[i]]
                            ELSE Append(users, UserRow(nextId, p.username, p.email,
                                                       p.password_hash))
        /\ UNCHANGED <<clock, issued, nodeEnv, dbConfig, signedOut, poolRef, poolUp, poolsMade,
                       dropped, dbUp>>

RegisterInsert(p, fault) ==
    LET violation == UniqueViolation(p.username, p.email)
        calls == <<CallHash, CallGetPool, CallInsert(p.username, p.email, p.password_hash)>>
    IN  /\ p \in pending
        /\ fault \/ dbUp
        /\ pending' = pending \ {p}
        /\ last' = [Served("register", NoToken, p.body, InsertResponse(fault, violation),
                           calls, IF fault THEN Fault ELSE Rows(<<>>))
                        EXCEPT !.audit = RegisterAudit(InsertResponse(fault, violation))]
        /\ IF fault
           THEN UNCHANGED <<users, nextId>>
           ELSE /\ nextId <= MaxId
                /\ nextId' = nextId + 1
                /\ users' = IF violation THEN users
                            ELSE Append(users, UserRow(nextId, p.username, p.email,
                                                       p.password_hash))
        /\ UNCHANGED <<clock, issued, nodeEnv, dbConfig, signedOut, poolRef, poolUp, poolsMade,
                       dropped, dbUp>>

-----------------------------------------------------------------------------
(* POST /api/forgot-password *)

ForgotBody(parse, email) == [parse |-> parse, email |-> email]

\* the SELECT ... WHERE email = @email AND is_active = 1
CallSelectEmail(email) == [fn |-> "query", proc |-> "SELECT email", params |-> [email |-> email]]

\* the rows the SELECT by email yields
SelectActiveByEmail(email) ==
    SelectSeq(users, LAMBDA u : u.email = email /\ u.is_active)

Confirmation ==
    Json(200, [success |-> TRUE,
               data |-> [message |-> "If an account with that email exists, you will receive a password reset link shortly."]])

\* an answer that tells the caller what the lookup found
ForgotAnswerReveals(found, fault) ==
    IF fault THEN Failure(500, "Request failed. Please try again.")
    ELSE IF found THEN Confirmation
    ELSE Failure(404, "No account with that email")

\* the response after the lookup: the inner catch swallows a database error, and
\* both branches of if (user) fall through to the same return
ForgotAnswer(found, fault) == Confirmation

\* POST /api/forgot-password: the response, the collaborator calls, and the kind of
\* the server-side log line of the lookup
ForgotRun(body, fault) ==
    LET failed == Failure(500, "Request failed. Please try again.")
        email == NormalEmail(body.email.v)
        rows == SelectActiveByEmail(email)
        ran(resp, calls, audit) == [resp |-> resp, calls |-> calls, audit |-> audit]
    IN  IF body.parse = "error"
        THEN ran(Failure(400, "Invalid request body"), <<>>, "")
        ELSE IF body.parse = "null"
        THEN ran(failed, <<>>, "unhandled error")
        ELSE IF Nullish(body.email)
        THEN ran(Failure(400, "Email address is required"), <<>>, "")
        ELSE IF body.email.t # "string"
        THEN ran(failed, <<>>, "unhandled error")
        ELSE IF email = <<>>
        THEN ran(Failure(400, "Email address is required"), <<>>, "")
        ELSE IF ~Includes(email, "@") \/ ~Includes(email, ".")
        THEN ran(Failure(400, "Please enter a valid email address"), <<>>, "")
        ELSE IF GetPoolThrows
        THEN ran(ForgotAnswer(FALSE, TRUE), <<CallGetPool>>, "DB error during user lookup")
        ELSE IF fault
        THEN ran(ForgotAnswer(FALSE, TRUE), <<CallGetPool, CallSelectEmail(email)>>,
                 "DB error during user lookup")
        ELSE IF rows # <<>>
        THEN ran(ForgotAnswer(TRUE, FALSE), <<CallGetPool, CallSelectEmail(email)>>,
                 "reset requested for account")
        ELSE ran(ForgotAnswer(FALSE, FALSE), <<CallGetPool, CallSelectEmail(email)>>,
                 "unknown email (suppressed)")

\* a request arrives at POST /api/forgot-password and is answered
ForgotPOST(body, fault) ==
    LET r == ForgotRun(body, fault)
    IN  /\ fault \/ dbUp
        /\ last' = [Served("forgot", NoToken, body, r.resp, r.calls,
                           IF fault \/ GetPoolThrows THEN Fault ELSE Rows(<<>>))
                        EXCEPT !.audit = r.audit]
        /\ IF r.calls # <<>> THEN GetPoolEffect ELSE UNCHANGED <<poolRef, poolUp, poolsMade,
                                                                 dropped>>
        /\ UNCHANGED <<users, nextId, clock, issued, nodeEnv, dbConfig, signedOut, dbUp, pending>>

-----------------------------------------------------------------------------
(* Login: CredentialsProvider.authorize and the sign-in outcome *)

Credentials(username, password) == [username |-> username, password |-> password]

\* authorize returns null
Null == [null |-> TRUE]

\* what authorize yields: its return value, the audit line it logs, its calls
Authorized(result, audit, calls) == [result |-> result, audit |-> audit, calls |-> calls]

\* bcrypt.compare(credentials.password, user.password_hash)
CallCompare == [fn |-> "bcrypt.compare"]

\* the SELECT of authorize
CallSelect(username) == [fn |-> "query", proc |-> "SELECT", params |-> [username |-> username]]

\* an identity that carries the stored digest along
IdentityWithHash(user) ==
    [id |-> ToString(user.id), name |-> user.username, email |-> user.email,
     password_hash |-> user.password_hash]

\* the minimal object authorize returns on success
Identity(user) == [id |-> ToString(user.id), name |-> user.username, email |-> user.email]

\* a "user not found" branch that reports the reason to the caller
NotFoundReported == [null |-> TRUE, reason |-> "user not found"]

\* the return value of the "user not found" branch
NotFoundResult == Null

\* an "account inactive" check that lets every account through
ActiveAlways(user) == TRUE

\* user.is_active
Active(user) == user.is_active

\* authorize(credentials); fault: the SELECT fails
authorize(credentials, fault) ==
    LET username == credentials.username
        password == credentials.password
        select == CallSelect(Trim(username.v))
        recordset == SelectByUsername(Trim(username.v))
        user == recordset[1]
    IN  IF Falsy(username) \/ Falsy(password)
        THEN Authorized(Null, "missing credentials", <<>>)
        ELSE IF GetPoolThrows
        THEN Authorized(Null, "database error", <<CallGetPool>>)
        ELSE IF fault
        THEN Authorized(Null, "database error", <<CallGetPool, select>>)
        ELSE IF recordset = <<>>
        THEN Authorized(NotFoundResult, "user not found", <<CallGetPool, select>>)
        ELSE IF ~Active(user)
        THEN Authorized(Null, "account inactive", <<CallGetPool, select>>)
        ELSE IF ~Compare(password.v, user.password_hash)
        THEN Authorized(Null, "wrong password", <<CallGetPool, select, CallCompare>>)
        ELSE Authorized(Identity(user), "success", <<CallGetPool, select, CallCompare>>)

\* what the caller of signIn("credentials", {redirect: false}) sees, and what the
\* login page shows for it
SignInResult(result) ==
    IF "null" \in DOMAIN result
    THEN [ok |-> FALSE, error |-> "CredentialsSignin", result |-> result,
          shown |-> "Invalid username or password. Please try again."]
    ELSE [ok |-> TRUE, error |-> "", result |-> result, shown |-> ""]

\* one sign-in attempt; a success mints a session token
\* logger calls that tell a failed sign-in from a successful one and nothing more
AuditTextGeneric(audit) ==
    IF audit = "success"
    THEN <<"L", "o", "g", "i", "n", " ", "s", "u", "c", "c", "e", "s", "s", " ",
           "mdash", " ">>
    ELSE <<"L", "o", "g", "i", "n", " ", "f", "a", "i", "l", "e", "d">>

\* the message text of each logger call of authorize, before the interpolated name
AuditText(audit) ==
    IF audit = "missing credentials"
    THEN <<"L", "o", "g", "i", "n", " ", "a", "t", "t", "e", "m", "p", "t", " ", "w",
           "i", "t", "h", " ", "m", "i", "s", "s", "i", "n", "g", " ", "c", "r", "e",
           "d", "e", "n", "t", "i", "a", "l", "s">>
    ELSE IF audit = "user not found"
    THEN <<"L", "o", "g", "i", "n", " ", "f", "a", "i", "l", "e", "d", ":", " ", "u",
           "s", "e", "r", " ", "n", "o", "t", " ", "f", "o", "u", "n", "d", " ",
           "mdash", " ">>
    ELSE IF audit = "account inactive"
    THEN <<"L", "o", "g", "i", "n", " ", "f", "a", "i", "l", "e", "d", ":", " ", "a",
           "c", "c", "o", "u", "n", "t", " ", "i", "n", "a", "c", "t", "i", "v", "e",
           " ", "mdash", " ">>
    ELSE IF audit = "wrong password"
    THEN <<"L", "o", "g", "i", "n", " ", "f", "a", "i", "l", "e", "d", ":", " ", "w",
           "r", "o", "n", "g", " ", "p", "a", "s", "s", "w", "o", "r", "d", " ",
           "mdash", " ">>
    ELSE IF audit = "success"
    THEN <<"L", "o", "g", "i", "n", " ", "s", "u", "c", "c", "e", "s", "s", " ",
           "mdash", " ">>
    ELSE <<"D", "a", "t", "a", "b", "a", "s", "e", " ", "e", "r", "r", "o", "r", " ",
           "d", "u", "r", "i", "n", "g", " ", "a", "u", "t", "h", "e", "n", "t", "i",
           "c", "a", "t", "i", "o", "n">>

\* logger.info on success, logger.error in the catch block, logger.warn elsewhere
AuditLevel(audit) ==
    IF audit = "success" THEN "info" ELSE IF audit = "database error" THEN "error" ELSE "warn"

\* the name a line interpolates: the submitted username as it was submitted on
\* "user not found", "account inactive" and "wrong password", the stored username
\* on success, none otherwise
AuditName(r, credentials) ==
    IF r.audit \in {"user not found", "account inactive", "wrong password"}
    THEN credentials.username.v
    ELSE IF r.audit = "success" THEN r.result.name ELSE <<>>

\* the records authorize hands to the logger during one call
AuthorizeLog(r, credentials) ==
    <<LogRecord(AuditLevel(r.audit),
                AuditText(r.audit) \o AuditName(r, credentials),
                IF r.audit = "database error"
                THEN [err |-> JStr(TxtErrMessage), stack |-> JStr(TxtErrStack)]
                ELSE NoMeta)>>

LoginPOST(credentials, fault) ==
    LET r == authorize(credentials, fault)
        minted == IF r.audit = "success" THEN {IssueToken(r.result.id, clock)} ELSE {}
    IN  /\ fault \/ dbUp
        /\ Cardinality(issued \cup minted) <= MaxTokens
        /\ issued' = issued \cup minted
        /\ last' = [Served("login", NoToken, credentials, SignInResult(r.result), r.calls,
                           IF fault \/ GetPoolThrows THEN Fault ELSE Rows(<<>>))
                        EXCEPT !.audit = r.audit, !.log = AuthorizeLog(r, credentials)]
        /\ IF r.calls # <<>> THEN GetPoolEffect ELSE UNCHANGED <<poolRef, poolUp, poolsMade,
                                                                 dropped>>
        /\ UNCHANGED <<users, nextId, clock, nodeEnv, dbConfig, signedOut, dbUp, pending>>

-----------------------------------------------------------------------------
(* Requests that wait for the database *)

\* a request whose handler awaits getPool() or a query
Waiting(op, token, body) == [op |-> op, token |-> token, body |-> body]

\* the run of the handler of op once the database has answered with ans
RunOf(op, token, body, ans) ==
    IF op = "history"
    THEN LET r == HistoryRun(token, body, ans)
         IN  [resp |-> r.resp, calls |-> r.calls, minted |-> {}]
    ELSE IF op = "lookup"
    THEN LET r == LookupRun(token, body, ans)
         IN  [resp |-> r.resp, calls |-> r.calls, minted |-> {}]
    ELSE IF op = "forgot"
    THEN LET r == ForgotRun(body, ans.fault)
         IN  [resp |-> r.resp, calls |-> r.calls, minted |-> {}]
    ELSE LET r == authorize(body, ans.fault)
         IN  [resp |-> SignInResult(r.result), calls |-> r.calls,
              minted |-> IF r.audit = "success" THEN {IssueToken(r.result.id, clock)} ELSE {}]

\* the handler gets as far as await getPool()
ReachesDatabase(op, token, body) == RunOf(op, token, body, Rows(<<>>)).calls # <<>>

\* a request arrives and its handler runs up to its first await on the database
Accept(op, token, body) ==
    /\ ReachesDatabase(op, token, body)
    /\ Waiting(op, token, body) \notin pending
    /\ Cardinality(pending) < MaxInflight
    /\ pending' = pending \cup {Waiting(op, token, body)}
    /\ last' = Served(op, token, body, Pending, <<>>, Fault)
    /\ UNCHANGED <<users, nextId, clock, issued, nodeEnv, dbConfig, signedOut, poolRef, poolUp,
                   poolsMade, dropped, dbUp>>

\* the driver settles the await of the waiting request p: with rows, or (timedOut)
\* by rejecting after connectionTimeout / requestTimeout; the handler goes on to its
\* return or into its catch block and responds
SettleStep(p, timedOut) ==
    LET ans == IF timedOut THEN Fault ELSE Rows(<<>>)
        r == RunOf(p.op, p.token, p.body, ans)
    IN  /\ p \in pending
        /\ timedOut \/ dbUp
        /\ Cardinality(issued \cup r.minted) <= MaxTokens
        /\ issued' = issued \cup r.minted
        /\ pending' = pending \ {p}
        /\ last' = Served(p.op, p.token, p.body, r.resp, r.calls,
                          IF timedOut \/ GetPoolThrows THEN Fault ELSE ans)
        /\ IF r.calls # <<>> THEN GetPoolEffect ELSE UNCHANGED <<poolRef, poolUp, poolsMade,
                                                                 dropped>>
        /\ UNCHANGED <<users, nextId, clock, nodeEnv, dbConfig, signedOut, dbUp>>

\* a handler without a catch block: the rejection escapes and no response is sent
SettleWithoutCatch(p, timedOut) == ~timedOut /\ SettleStep(p, timedOut)

\* every await on the database is inside the try block of its handler
Settle(p, timedOut) == SettleStep(p, timedOut)

-----------------------------------------------------------------------------
(* The environment *)

\* an administrator sets is_active of row i
SetActive(i, b) ==
    /\ i \in 1..Len(users)
    /\ users[i].is_active # b
    /\ users' = [users EXCEPT ![i].is_active = b]
    /\ UNCHANGED <<nextId, clock, issued, nodeEnv, dbConfig, signedOut, poolRef, poolUp,
                   poolsMade, dropped, dbUp, pending, last>>

\* handleLogout: signOut() of next-auth/react, which destroys the browser's session
\* cookie of token t; nothing the handlers read changes
SignOut(t) ==
    /\ t \in issued \ signedOut
    /\ signedOut' = signedOut \cup {t}
    /\ UNCHANGED <<users, nextId, clock, issued, nodeEnv, dbConfig, poolRef, poolUp, poolsMade,
                   dropped, dbUp, pending, last>>

\* time passes
Tick ==
    /\ clock < MaxClock
    /\ clock' = clock + 1
    /\ UNCHANGED <<users, nextId, issued, nodeEnv, dbConfig, signedOut, poolRef, poolUp,
                   poolsMade, dropped, dbUp, pending, last>>

\* the database server becomes unreachable, or reachable again
DbFlip ==
    /\ dbUp' = ~dbUp
    /\ UNCHANGED <<users, nextId, clock, issued, nodeEnv, dbConfig, signedOut, poolRef, poolUp,
                   poolsMade, dropped, pending, last>>

\* the referenced pool emits "error"; whether it still reports connected afterwards
\* is the driver's choice
PoolError(stillConnected) ==
    /\ poolRef # 0
    /\ dropped' = dropped \cup {poolRef}
    /\ IF nodeEnv = "production"
       THEN poolRef' = 0 /\ poolUp' = FALSE
       ELSE poolRef' = poolRef /\ poolUp' = stillConnected
    /\ UNCHANGED <<users, nextId, clock, issued, nodeEnv, dbConfig, signedOut, poolsMade, dbUp,
                   pending, last>>

\* what a call of getPool() leaves behind: the pool it returned, or none when it
\* threw
PoolReturned(call, pool) ==
    Served("getPool", NoToken, call, [ok |-> pool # 0, pool |-> pool], <<CallGetPool>>,
           IF pool # 0 THEN Rows(<<>>) ELSE Fault)

\* a call of getPool() suspended at "await sql.connect(buildConfig())"
Connecting(call) == [op |-> "getPool", call |-> call]

\* getPool() up to its first await: with a connected pool referenced it returns
\* that pool; otherwise it logs, builds the configuration (which may throw) and
\* starts to connect, and the call is suspended until the connection settles
GetPoolStart(call) ==
    /\ Connecting(call) \notin pending
    /\ IF ~PoolNeeded
       THEN last' = PoolReturned(call, poolRef) /\ pending' = pending
       ELSE IF ~BuildConfigOk
       THEN last' = PoolReturned(call, 0) /\ pending' = pending
       ELSE last' = last /\ pending' = pending \cup {Connecting(call)}
    /\ UNCHANGED <<users, nextId, clock, issued, nodeEnv, dbConfig, signedOut, poolRef, poolUp,
                   poolsMade, dropped, dbUp>>

\* sql.connect() resolves for a suspended call: the new pool is assigned to the
\* pool reference (global._mssqlPool or _prodPool), whatever the reference holds by
\* now, the error listener is attached and the reference is returned
GetPoolConnected(p) ==
    /\ p.op = "getPool"
    /\ dbUp
    /\ poolsMade < MaxPools
    /\ poolsMade' = poolsMade + 1
    /\ poolRef' = poolsMade + 1
    /\ poolUp' = TRUE
    /\ pending' = pending \ {p}
    /\ last' = PoolReturned(p.call, poolsMade + 1)
    /\ UNCHANGED <<users, nextId, clock, issued, nodeEnv, dbConfig, signedOut, dropped, dbUp>>

\* sql.connect() rejects for a suspended call: getPool() throws and assigns nothing
GetPoolRejected(p) ==
    /\ p.op = "getPool"
    /\ ~dbUp
    /\ pending' = pending \ {p}
    /\ last' = PoolReturned(p.call, 0)
    /\ UNCHANGED <<users, nextId, clock, issued, nodeEnv, dbConfig, signedOut, poolRef, poolUp,
                   poolsMade, dropped, dbUp>>

\* a pool that getPool() created emits "error", referenced or not: its listener
\* logs, and the listener of the production branch clears _prodPool
PoolErrorOf(pool, stillConnected) ==
    /\ pool \in 1..poolsMade
    /\ pool \notin dropped
    /\ dropped' = dropped \cup {pool}
    /\ IF nodeEnv = "production"
       THEN poolRef' = 0 /\ poolUp' = FALSE
       ELSE poolRef' = poolRef /\ poolUp' = IF pool = poolRef THEN stillConnected ELSE poolUp
    /\ UNCHANGED <<users, nextId, clock, issued, nodeEnv, dbConfig, signedOut, poolsMade, dbUp,
                   pending, last>>

-----------------------------------------------------------------------------
(* The requests of the model *)

PhoneBare == Digs(<<2, 1, 2, 5, 5, 5, 1, 2, 3, 4>>)
PhoneParen ==
    <<"(">> \o Digs(<<2, 1, 2>>) \o <<")", " ">> \o Digs(<<5, 5, 5>>) \o <<"-">>
        \o Digs(<<1, 2, 3, 4>>)
PhoneDash == Digs(<<2, 1, 2>>) \o <<"-">> \o Digs(<<5, 5, 5>>) \o <<"-">> \o Digs(<<1, 2, 3, 4>>)
PhoneDot == Digs(<<2, 1, 2>>) \o <<".">> \o Digs(<<5, 5, 5>>) \o <<".">> \o Digs(<<1, 2, 3, 4>>)
PhoneOther == Digs(<<5, 5, 5, 1, 2, 3, 4, 5, 6, 7>>)
PhoneShort == Digs(<<5, 5, 5, 1, 2, 3>>)
PhoneLong == Digs(<<1, 2, 1, 2, 5, 5, 5, 1, 2, 3, 4>>)
PhoneNineX == Digs(<<2, 1, 2, 5, 5, 5, 1, 2, 3>>) \o <<"x">>
PhoneExt == PhoneDash \o <<" ", "x">> \o Digs(<<9>>)

PhoneStrings ==
    {PhoneBare, PhoneParen, PhoneDash, PhoneDot, PhoneOther, PhoneShort, PhoneLong,
     PhoneNineX, PhoneExt, <<>>}

PhoneValues == {JStr(p) : p \in PhoneStrings} \cup {JNull, JUndef, JNum(PhoneBare)}

DateValues == {JStr(d) : d \in DateStrings} \cup {JNull, JUndef, JNum(<<"5">>)}

GoodDate == JStr(DateStr(<<0, 1>>, <<1, 5>>, <<2, 0, 2, 4>>))

BadBodies == {GatewayBody("error", JUndef, JUndef), GatewayBody("null", JUndef, JUndef)}

HistoryBodies == {GatewayBody("object", p, JUndef) : p \in PhoneValues} \cup BadBodies

LookupBodies ==
    {GatewayBody("object", p, GoodDate) : p \in PhoneValues}
        \cup {GatewayBody("object", JStr(PhoneParen), d) : d \in DateValues}
        \cup BadBodies

\* result rows of the decision service: no fixed schema
RowA ==
    [PhoneNumber |-> JStr(PhoneBare), Status |-> JStr(<<"S">>),
     CheckedAt |-> [t |-> "date", v |-> <<"T">>]]
RowB == [Id |-> JNum(<<"7">>), Notes |-> JNull]

Answers == {Fault, Rows(<<>>), Rows(<<RowA>>), Rows(<<RowA, RowB>>), Rows(<<RowB, RowA>>)}

NameAli == <<"a", "l", "i">>
NameAliPadded == <<" ", "a", "l", "i", " ">>
NameBob == <<"b", "o", "b">>
NameShort == <<"a", "b">>
NameBlank == <<" ", " ">>
NameZed == <<"z", "e", "d">>
NameLong == [i \in 1..(MAX_USERNAME_LENGTH + 1) |-> "n"]

MailA == <<"a", "@", "x", ".", "c">>
MailAUpper == <<" ", "A", "@", "X", ".", "c">>
MailB == <<"b", "@", "x", ".", "c">>
MailBad == <<"a", "x">>

PassOne == <<"p", "a", "s", "s", "w", "o", "r", "d">>
PassTwo == <<"p", "a", "s", "s", "w", "0", "r", "d">>
PassShort == <<"p", "w">>

Reg(u, e, p) == RegisterBody("object", JStr(u), JStr(e), JStr(p))

\* four valid registrations that collide pairwise on the username or on the email
ValidRegistrations ==
    {Reg(NameAli, MailA, PassOne),
     Reg(NameAliPadded, MailB, PassOne),
     Reg(NameBob, MailAUpper, PassTwo),
     Reg(NameBob, MailB, PassTwo)}

InvalidRegistrations ==
    {Reg(NameShort, MailA, PassOne),
     Reg(NameAli, MailBad, PassOne),
     Reg(NameAli, MailA, PassShort),
     Reg(<<>>, MailA, PassOne),
     Reg(NameBlank, MailA, PassOne),
     Reg(NameLong, MailA, PassOne),
     RegisterBody("object", JStr(NameAli), JStr(MailA), JNull),
     RegisterBody("object", JStr(NameAli), JUndef, JStr(PassOne)),
     RegisterBody("object", JNum(<<"5">>), JStr(MailA), JStr(PassOne)),
     RegisterBody("object", JStr(NameAli), JStr(MailA), JNum(<<"5">>)),
     RegisterBody("error", JUndef, JUndef, JUndef),
     RegisterBody("null", JUndef, JUndef, JUndef)}

RegisterBodies == ValidRegistrations \cup InvalidRegistrations

LoginInputs ==
    {Credentials(JStr(u), JStr(p)) : u \in {NameAli, NameAliPadded}, p \in {PassOne, PassTwo}}
        \cup {Credentials(JStr(NameBob), JStr(PassTwo)),
              Credentials(JStr(NameZed), JStr(PassOne)),
              Credentials(JStr(NameBlank), JStr(PassOne)),
              Credentials(JStr(<<>>), JStr(PassOne)),
              Credentials(JStr(NameAli), JStr(<<>>)),
              Credentials(JUndef, JUndef)}

\* the sign-in attempts during which the database may fail
FaultedLogins ==
    {Credentials(JStr(NameAli), JStr(PassOne)), Credentials(JStr(NameZed), JStr(PassOne))}

ForgotBodies ==
    {ForgotBody("object", JStr(e)) : e \in {MailA, MailAUpper, MailB, MailBad, <<>>, <<" ">>}}
        \cup {ForgotBody("object", JUndef),
              ForgotBody("object", JNum(<<"5">>)),
              ForgotBody("error", JUndef),
              ForgotBody("null", JUndef)}

\* the pages a browser loads
Pages == {"/", "/login", "/dnc-lookup", "/dnc-history"}

\* texts that hold a 10-digit phone number
PhoneTexts ==
    {<<"p", "h", "o", "n", "e", ":", " ">> \o p \o tail :
        p \in {PhoneBare, PhoneParen, PhoneDash, PhoneDot, PhoneOther},
        tail \in {<<>>, <<",", " ", "o", "k">>}}

\* records handed to the logger: the phone in the message, or in a metadata field
LogInputs ==
    {LogRecord(level, t, [k \in {} |-> JNull]) : level \in {"info", "warn", "error"}, t \in PhoneTexts}
        \cup {LogRecord(level, <<"f", "a", "i", "l", "e", "d">>, [err |-> JStr(t)]) :
                level \in {"info", "warn", "error"}, t \in PhoneTexts}

\* the session of the first account, issued at time 0
AliceToken == IssueToken("1", 0)

\* one waiting request of each operation that has a single await on the database
LiveRequests ==
    {Waiting("login", NoToken, Credentials(JStr(NameAli), JStr(PassOne))),
     Waiting("forgot", NoToken, ForgotBody("object", JStr(MailA))),
     Waiting("history", AliceToken, GatewayBody("object", JStr(PhoneParen), JUndef)),
     Waiting("lookup", AliceToken, GatewayBody("object", JStr(PhoneParen), GoodDate))}

\* the salts bcrypt.hash may draw
Salts == {"salt1", "salt2"}

-----------------------------------------------------------------------------
(* Specifications *)

\* no request served yet
Idle ==
    [op |-> "none", token |-> NoToken, body |-> <<>>, resp |-> Pending, calls |-> <<>>,
     ans |-> Fault, audit |-> "", log |-> <<>>, seq |-> 0]

Init ==
    /\ users = <<>>
    /\ nextId = 1
    /\ clock = 0
    /\ issued = {}
    /\ nodeEnv \in {"development", "production"}
    /\ dbConfig \in SUBSET RequiredEnv
    /\ poolRef = 0
    /\ poolUp = FALSE
    /\ poolsMade = 0
    /\ dropped = {}
    /\ signedOut = {}
    /\ dbUp = TRUE
    /\ pending = {}
    /\ last = Idle

Next ==
    \/ \E b \in RegisterBodies, salt \in Salts : RegisterPOST(b, salt)
    \/ \E p \in pending, fault \in BOOLEAN : RegisterInsert(p, fault)
    \/ \E c \in LoginInputs, fault \in BOOLEAN : LoginPOST(c, fault)
    \/ \E b \in ForgotBodies, fault \in BOOLEAN : ForgotPOST(b, fault)
    \/ \E path \in Pages, t \in Presentable : PageGET(path, t)
    \/ \E info \in LogInputs : LoggerCall(info)
    \/ \E text \in PhoneTexts : UncaughtException(text)
    \/ \E text \in PhoneTexts : UnhandledRejection(text)
    \/ \E t \in Presentable, b \in HistoryBodies, a \in Answers : HistoryPOST(t, b, a)
    \/ \E t \in Presentable, b \in LookupBodies, a \in Answers : LookupPOST(t, b, a)
    \/ \E i \in 1..Len(users), b \in BOOLEAN : SetActive(i, b)
    \/ \E t \in issued : SignOut(t)
    \/ Tick
    \/ DbFlip
    \/ \E c \in BOOLEAN : PoolError(c)

Spec == Init /\ [][Next]_vars

\* a production process with its database configuration
InitProduction == Init /\ nodeEnv = "production" /\ dbConfig = RequiredEnv

\* a production process started with any part of the database configuration
InitAnyConfig == Init /\ nodeEnv = "production"

\* one account, its sessions over time, and the guard of both protected operations
AliceBody == Reg(NameAli, MailA, PassOne)
AliceLogin == Credentials(JStr(NameAli), JStr(PassOne))
ValidBody == GatewayBody("object", JStr(PhoneParen), GoodDate)
SessionBodies ==
    {ValidBody,
     GatewayBody("object", JStr(PhoneShort), GoodDate),
     GatewayBody("error", JUndef, JUndef)}

NextSession ==
    \/ RegisterPOST(AliceBody, "salt1")
    \/ \E p \in pending : RegisterInsert(p, FALSE)
    \/ LoginPOST(AliceLogin, FALSE)
    \/ \E t \in Presentable, b \in SessionBodies : HistoryPOST(t, b, Rows(<<RowA>>))
    \/ \E t \in Presentable, b \in SessionBodies : LookupPOST(t, b, Rows(<<RowA>>))
    \/ Tick
    \/ DbFlip

SpecSession == InitProduction /\ [][NextSession]_vars

\* one account with a session, and every request body of the gateway
NextGateway ==
    \/ RegisterPOST(AliceBody, "salt1")
    \/ \E p \in pending : RegisterInsert(p, FALSE)
    \/ LoginPOST(AliceLogin, FALSE)
    \/ \E t \in issued \cup {NoToken}, b \in HistoryBodies : HistoryPOST(t, b, Rows(<<RowA>>))
    \/ \E t \in issued, a \in Answers : HistoryPOST(t, ValidBody, a)
    \/ \E t \in issued \cup {NoToken}, b \in LookupBodies : LookupPOST(t, b, Rows(<<RowA>>))
    \/ \E t \in issued, a \in Answers : LookupPOST(t, ValidBody, a)
    \/ DbFlip

SpecGateway == InitProduction /\ [][NextGateway]_vars

\* concurrent registrations against the store
NextRegister ==
    \/ \E b \in RegisterBodies : RegisterPOST(b, "salt1")
    \/ \E p \in pending, fault \in BOOLEAN : RegisterInsert(p, fault)

SpecRegister == InitProduction /\ [][NextRegister]_vars

\* two accounts and every sign-in attempt
NextLogin ==
    \/ \E b \in {AliceBody, Reg(NameBob, MailB, PassTwo)} : RegisterPOST(b, "salt1")
    \/ \E p \in pending : RegisterInsert(p, FALSE)
    \/ \E c \in LoginInputs : LoginPOST(c, FALSE)
    \/ \E c \in FaultedLogins : LoginPOST(c, TRUE)
    \/ \E i \in 1..Len(users), b \in BOOLEAN : SetActive(i, b)

SpecLogin == InitProduction /\ [][NextLogin]_vars

\* two accounts, active or not, and every forgot-password request
NextForgot ==
    \/ \E b \in {AliceBody, Reg(NameBob, MailB, PassTwo)} : RegisterPOST(b, "salt1")
    \/ \E p \in pending : RegisterInsert(p, FALSE)
    \/ \E b \in ForgotBodies, fault \in BOOLEAN : ForgotPOST(b, fault)
    \/ \E i \in 1..Len(users), b \in BOOLEAN : SetActive(i, b)
    \/ DbFlip

SpecForgot == InitProduction /\ [][NextForgot]_vars

\* the four JSON operations together, with faults of the database
EnvelopeRegistrations ==
    {AliceBody,
     Reg(NameBob, MailAUpper, PassTwo),
     Reg(NameAli, MailA, PassShort),
     RegisterBody("object", JStr(NameAli), JStr(MailA), JNum(<<"5">>)),
     RegisterBody("null", JUndef, JUndef, JUndef)}

EnvelopeForgots ==
    {ForgotBody("object", JStr(MailA)),
     ForgotBody("object", JStr(MailBad)),
     ForgotBody("object", JNum(<<"5">>)),
     ForgotBody("error", JUndef)}

NextEnvelope ==
    \/ \E b \in EnvelopeRegistrations : RegisterPOST(b, "salt1")
    \/ \E p \in pending, fault \in BOOLEAN : RegisterInsert(p, fault)
    \/ LoginPOST(AliceLogin, FALSE)
    \/ \E b \in EnvelopeForgots, fault \in BOOLEAN : ForgotPOST(b, fault)
    \/ \E t \in issued \cup {NoToken}, b \in SessionBodies, a \in {Fault, Rows(<<RowA>>)} :
          HistoryPOST(t, b, a)
    \/ \E t \in issued \cup {NoToken}, b \in SessionBodies, a \in {Fault, Rows(<<RowA>>)} :
          LookupPOST(t, b, a)
    \/ DbFlip

SpecEnvelope == InitProduction /\ [][NextEnvelope]_vars

\* page loads and direct API calls with every token a caller can present
NextGuard ==
    \/ RegisterPOST(AliceBody, "salt1")
    \/ \E p \in pending : RegisterInsert(p, FALSE)
    \/ LoginPOST(AliceLogin, FALSE)
    \/ \E path \in Pages, t \in Presentable : PageGET(path, t)
    \/ \E t \in Presentable : HistoryPOST(t, ValidBody, Rows(<<RowA>>))
    \/ \E t \in Presentable : LookupPOST(t, ValidBody, Rows(<<RowA>>))
    \/ Tick

SpecGuard == InitProduction /\ [][NextGuard]_vars

\* the logger and the process-level handlers
NextLogger ==
    \/ \E info \in LogInputs : LoggerCall(info)
    \/ \E text \in PhoneTexts : UncaughtException(text)
    \/ \E text \in PhoneTexts : UnhandledRejection(text)

SpecLogger == InitProduction /\ [][NextLogger]_vars

\* requests to a process started with or without its database configuration
NextConfig ==
    \/ \E b \in {AliceBody, Reg(NameAli, MailA, PassShort)} : RegisterPOST(b, "salt1")
    \/ \E p \in pending, fault \in BOOLEAN : RegisterInsert(p, fault)
    \/ \E fault \in BOOLEAN : LoginPOST(AliceLogin, fault)
    \/ \E fault \in BOOLEAN : ForgotPOST(ForgotBody("object", JStr(MailA)), fault)
    \/ \E t \in issued \cup {NoToken} : HistoryPOST(t, ValidBody, Rows(<<RowA>>))
    \/ \E t \in issued \cup {NoToken} : LookupPOST(t, ValidBody, Rows(<<RowA>>))

SpecConfig == InitAnyConfig /\ [][NextConfig]_vars

\* a configured process of either NODE_ENV
InitConfigured == Init /\ dbConfig = RequiredEnv

\* requests that call getPool(), and a pool whose connection drops
NextPool ==
    \/ \E b \in EnvelopeForgots, fault \in BOOLEAN : ForgotPOST(b, fault)
    \/ \E fault \in BOOLEAN : LoginPOST(AliceLogin, fault)
    \/ \E stillConnected \in BOOLEAN : PoolError(stillConnected)
    \/ DbFlip

SpecPool == InitConfigured /\ [][NextPool]_vars

\* calls of getPool() that overlap, and pools that fail
NextConnect ==
    \/ \E call \in 1..MaxInflight : GetPoolStart(call)
    \/ \E p \in pending : GetPoolConnected(p)
    \/ \E p \in pending : GetPoolRejected(p)
    \/ \E pool \in 1..MaxPools, stillConnected \in BOOLEAN : PoolErrorOf(pool, stillConnected)
    \/ DbFlip

SpecConnect == InitConfigured /\ [][NextConnect]_vars

\* every operation that reaches the database, with faults, and the administrator
\* who toggles is_active
StoreRegistrations ==
    {AliceBody, Reg(NameBob, MailAUpper, PassTwo), Reg(NameBob, MailB, PassTwo),
     RegisterBody("null", JUndef, JUndef, JUndef)}

NextStore ==
    \/ \E b \in StoreRegistrations : RegisterPOST(b, "salt1")
    \/ \E p \in pending, fault \in BOOLEAN : RegisterInsert(p, fault)
    \/ \E fault \in BOOLEAN : LoginPOST(AliceLogin, fault)
    \/ \E fault \in BOOLEAN : ForgotPOST(ForgotBody("object", JStr(MailA)), fault)
    \/ \E t \in issued \cup {NoToken}, a \in {Fault, Rows(<<RowA>>)} : HistoryPOST(t, ValidBody, a)
    \/ \E t \in issued \cup {NoToken} : LookupPOST(t, ValidBody, Rows(<<RowA>>))
    \/ \E i \in 1..Len(users), b \in BOOLEAN : SetActive(i, b)

SpecStore == InitProduction /\ [][NextStore]_vars

\* one account that signs in, signs out and is deactivated, and its token over time
NextRevoke ==
    \/ RegisterPOST(AliceBody, "salt1")
    \/ \E p \in pending : RegisterInsert(p, FALSE)
    \/ LoginPOST(AliceLogin, FALSE)
    \/ \E t \in Presentable : HistoryPOST(t, ValidBody, Rows(<<RowA>>))
    \/ \E t \in Presentable : LookupPOST(t, ValidBody, Rows(<<RowA>>))
    \/ \E i \in 1..Len(users), b \in BOOLEAN : SetActive(i, b)
    \/ \E t \in issued : SignOut(t)
    \/ Tick

SpecRevoke == InitProduction /\ [][NextRevoke]_vars

\* registrations, a second registration of a taken username, sign-ins and
\* deactivation, with faults of the database
RoundTripBodies ==
    {Reg(NameAliPadded, MailAUpper, PassOne),
     Reg(NameAli, MailB, PassTwo),
     Reg(NameBob, MailB, PassTwo)}

RoundTripLogins ==
    {Credentials(JStr(NameAliPadded), JStr(PassOne)),
     Credentials(JStr(NameAli), JStr(PassTwo)),
     Credentials(JStr(NameBob), JStr(PassTwo))}

NextRoundTrip ==
    \/ \E b \in RoundTripBodies : RegisterPOST(b, "salt1")
    \/ \E p \in pending, fault \in BOOLEAN : RegisterInsert(p, fault)
    \/ \E c \in RoundTripLogins : LoginPOST(c, FALSE)
    \/ LoginPOST(Credentials(JStr(NameAliPadded), JStr(PassOne)), TRUE)
    \/ \E i \in 1..Len(users), b \in BOOLEAN : SetActive(i, b)

SpecRoundTrip == InitProduction /\ [][NextRoundTrip]_vars

\* requests that wait for the database, which answers or times out
NextLive ==
    \/ RegisterPOST(AliceBody, "salt1")
    \/ \E p \in {q \in pending : "username" \in DOMAIN q}, fault \in BOOLEAN :
          RegisterInsert(p, fault)
    \/ \E p \in LiveRequests : p.token \in issued \cup {NoToken} /\ Accept(p.op, p.token, p.body)
    \/ \E p \in {q \in pending : "op" \in DOMAIN q}, timedOut \in BOOLEAN : Settle(p, timedOut)
    \/ DbFlip

\* the driver settles every await: it answers, or it signals the timeout
FairLive ==
    /\ \A p \in LiveRequests : WF_vars(\E timedOut \in BOOLEAN : Settle(p, timedOut))
    /\ WF_vars(\E fault \in BOOLEAN : RegisterInsert(InFlight(AliceBody, "salt1"), fault))

SpecLive == InitProduction /\ [][NextLive]_vars /\ FairLive

-----------------------------------------------------------------------------
(* Properties of the route guard and the session *)

\* the last request was one to a protected operation
Protected(r) == r.op \in {"history", "lookup"}

\* a step that serves a request of a protected operation
ProtectedStep == last'.seq # last.seq /\ Protected(last')

\* the token is byte for byte one the issuer minted
Intact(t) == t \in issued

\* seconds since the token was issued
Age(t) == clock * TickSeconds - t.iat

EightHours == 8 * 60 * 60

\* the request of this step carries a valid session
ValidSession(t) == Intact(t) /\ Age(t) < EightHours

\* C1: a lookup or history request that carries no valid session is answered 401
\* {success: false, error: "Unauthorized"} and makes no database call (no pool
\* acquisition, no execution), whatever its body; the pool is left as it was.
C1_UnauthorizedBeforeDatabase ==
    [][(ProtectedStep /\ ~ValidSession(last'.token))
          => /\ last'.resp = [status |-> 401,
                              body |-> [success |-> FALSE, error |-> "Unauthorized"]]
             /\ last'.calls = <<>>
             /\ UNCHANGED <<poolRef, poolUp, poolsMade, dropped>>]_vars

\* C1: a history request with a valid body and an intact but expired token was
\* refused while the database was reachable
C1_Witness ==
    /\ last.op = "history"
    /\ last.body = ValidBody
    /\ Intact(last.token)
    /\ last.resp.status = 401
    /\ last.calls = <<>>
    /\ dbUp

\* C2: the guard of a protected operation accepts a token if and only if the token
\* is intact and was issued less than 8 hours before the request.
C2_AcceptedIffIntactAndFresh ==
    [][ProtectedStep => ((last'.resp.status # 401) <=> ValidSession(last'.token))]_vars

\* C2: an intact token was accepted four hours after it was issued
C2_Witness ==
    /\ Protected(last)
    /\ last.resp.status = 200
    /\ Intact(last.token)
    /\ clock * TickSeconds - last.token.iat = 4 * 60 * 60

-----------------------------------------------------------------------------
(* Properties of the gateway's validation and relay *)

\* the executions of a stored procedure among the calls a request made
Executions(r) == {i \in 1..Len(r.calls) : r.calls[i].fn = "execute"}

\* the positions of s that hold a digit
DigitPositions(s) == {i \in 1..Len(s) : s[i] \in Digits}

\* the k-th smallest element of a set of numbers
Nth(S, k) == CHOOSE i \in S : Cardinality({j \in S : j < i}) = k - 1

\* the digits of s, in the order in which s holds them
DigitsInOrder(s) ==
    [k \in 1..Cardinality(DigitPositions(s)) |-> s[Nth(DigitPositions(s), k)]]

\* the request was served under a valid session (the clock stands still here)
WithSession(r) == Protected(r) /\ Intact(r.token)

\* the phoneNumber field is a string, or is missing
PhoneGiven(r) ==
    /\ r.body.parse = "object"
    /\ r.body.phoneNumber.t \in {"string", "undefined", "null"}

\* C7: with a valid session, a phoneNumber that is missing or does not hold exactly
\* 10 digits is answered 400 "A valid 10-digit US phone number is required" and no
\* stored procedure is executed; a stored procedure is only ever executed with a
\* value that is exactly 10 digits.
C7_BadPhoneNeverDispatched ==
    /\ (WithSession(last) /\ PhoneGiven(last)
            /\ Cardinality(DigitPositions(last.body.phoneNumber.v)) # 10)
          => /\ last.resp = [status |-> 400,
                             body |-> [success |-> FALSE,
                                       error |-> "A valid 10-digit US phone number is required"]]
             /\ Executions(last) = {}
    /\ Protected(last)
          => \A i \in Executions(last) :
                LET sent == last.calls[i].params.PhoneNumber
                IN  Len(sent) = 10 /\ \A k \in 1..10 : sent[k] \in Digits

\* C7: a lookup with a valid session and an 11-digit phone number was answered 400
C7_Witness ==
    /\ last.op = "lookup"
    /\ Intact(last.token)
    /\ last.body.phoneNumber = JStr(PhoneLong)
    /\ last.resp.status = 400
    /\ Executions(last) = {}

\* the number a two- or four-digit field denotes
FieldVal(s, from, to) == NumVal(SubSeq(s, from, to))

\* s is MM/DD/YYYY and names a day that exists in the calendar
RealCalendarDate(s) ==
    /\ Len(s) = 10
    /\ s[3] = "/" /\ s[6] = "/"
    /\ \A i \in {1, 2, 4, 5, 7, 8, 9, 10} : s[i] \in Digits
    /\ FieldVal(s, 1, 2) \in 1..12
    /\ FieldVal(s, 4, 5) >= 1
    /\ FieldVal(s, 4, 5) <= DaysInMonth(FieldVal(s, 7, 10), FieldVal(s, 1, 2))

\* C8: a lookup is dispatched to the decision service only if lookupDate denotes a
\* real calendar date; a missing date, a month out of range or a day the month does
\* not have is answered 400.
C8_OnlyRealDatesDispatched ==
    (last.op = "lookup" /\ Executions(last) # {})
        => /\ last.body.lookupDate.t = "string"
           /\ RealCalendarDate(last.body.lookupDate.v)

\* C9: the phone value sent downstream is exactly the digits of the input, in
\* order; the bare, parenthesized, dashed and dotted writings of 212 555 1234 all
\* send 2125551234.
C9_SentPhoneIsDigitsInOrder ==
    Protected(last)
        => \A i \in Executions(last) :
              /\ last.calls[i].params.PhoneNumber = DigitsInOrder(last.body.phoneNumber.v)
              /\ last.body.phoneNumber.v \in {PhoneBare, PhoneParen, PhoneDash, PhoneDot}
                    => last.calls[i].params.PhoneNumber = PhoneBare

\* C9: a history request for "(212) 555-1234" was dispatched
C9_Witness ==
    /\ last.op = "history"
    /\ last.body.phoneNumber = JStr(PhoneParen)
    /\ Executions(last) # {}

\* C10: when the decision service returns a row set, the response is 200
\* {success: true, data} and data has the rows returned: as many, in the same order,
\* each with the same keys and, under each key, the value returned (as JSON writes it).
C10_RowsRelayedUnmodified ==
    (Protected(last) /\ Executions(last) # {} /\ ~last.ans.fault)
        => /\ last.resp.status = 200
           /\ DOMAIN last.resp.body = {"success", "data"}
           /\ last.resp.body.success = TRUE
           /\ LET data == last.resp.body.data
                  rows == last.ans.rows
              IN  /\ Len(data) = Len(rows)
                  /\ \A i \in 1..Len(rows) :
                        /\ DOMAIN data[i] = DOMAIN rows[i]
                        /\ \A k \in DOMAIN rows[i] :
                              /\ data[i][k].v = rows[i][k].v
                              /\ data[i][k].t = IF rows[i][k].t = "date" THEN "string"
                                                ELSE rows[i][k].t

\* C10: a lookup relayed two rows of different shape
C10_Witness ==
    /\ last.op = "lookup"
    /\ last.resp.status = 200
    /\ last.ans = Rows(<<RowB, RowA>>)
    /\ Len(last.resp.body.data) = 2

-----------------------------------------------------------------------------
(* Properties of sign-in *)

\* a field of the credentials is a non-empty string
NonEmpty(x) == x.t = "string" /\ x.v # <<>>

\* the rows whose username is the submitted one, surrounding whitespace aside
Named(c) == {i \in 1..Len(users) : users[i].username = Trim(c.username.v)}

\* the rows whose username is the submitted one, character for character
NamedExactly(c) == {i \in 1..Len(users) : users[i].username = c.username.v}

\* the stored digest of row i was computed from this password
Verifies(c, i) == users[i].password_hash.pw = c.password.v

\* (a) the username exists, the account is active, the password is wrong
WrongPasswordCase(c) ==
    /\ NonEmpty(c.username) /\ NonEmpty(c.password)
    /\ \E i \in Named(c) : users[i].is_active /\ ~Verifies(c, i)

\* (b) no user has the username
NonexistentCase(c) == NonEmpty(c.username) /\ NonEmpty(c.password) /\ Named(c) = {}

\* the account exists and is inactive
InactiveCase(c) ==
    /\ NonEmpty(c.username) /\ NonEmpty(c.password)
    /\ \E i \in Named(c) : ~users[i].is_active

\* what the caller sees of a sign-in attempt
Outcome(c, fault) == SignInResult(authorize(c, fault).result)

\* C3: in every state of the user store, a sign-in that fails on a wrong password
\* and one that fails on a nonexistent username have the same visible outcome; so
\* have the attempts that fail on an inactive account or on a database fault.
C3_SameOutcomeForEveryFailure ==
    \A c2 \in LoginInputs :
        NonexistentCase(c2)
            => \A c1 \in LoginInputs :
                  /\ (WrongPasswordCase(c1) \/ InactiveCase(c1))
                        => Outcome(c1, FALSE) = Outcome(c2, FALSE)
                  /\ Outcome(c1, TRUE) = Outcome(c2, FALSE)

\* C3: a sign-in with an existing username and a wrong password has just failed,
\* and another username of the inputs is in no row
C3_Witness ==
    /\ last.op = "login"
    /\ WrongPasswordCase(last.body)
    /\ ~last.resp.ok
    /\ \E c2 \in LoginInputs : NonexistentCase(c2) /\ c2.password = last.body.password

\* a step that serves a sign-in attempt
LoginStep == last'.seq # last.seq /\ last'.op = "login"

\* the identity of row i
IdentityOf(i) ==
    [id |-> ToString(users[i].id), name |-> users[i].username, email |-> users[i].email]

\* the generic failure of a sign-in
GenericFailure(resp) ==
    /\ resp.result = Null
    /\ ~resp.ok
    /\ resp.error = "CredentialsSignin"
    /\ resp.shown = "Invalid username or password. Please try again."

\* C4 as stated: authenticate returns an identity iff both inputs are non-empty, a
\* user with that username exists and is active, and the password verifies; the
\* identity is exactly id, username and email; every other case is the generic
\* failure.
C4_IdentityIffAsStated ==
    [][LoginStep =>
          LET c == last'.body
              good == {i \in NamedExactly(c) : users[i].is_active /\ Verifies(c, i)}
          IN  IF NonEmpty(c.username) /\ NonEmpty(c.password) /\ good # {}
              THEN \E i \in good : last'.resp.result = IdentityOf(i)
              ELSE GenericFailure(last'.resp)]_vars

\* C4, amended: authenticate returns an identity iff both inputs are non-empty, the
\* SELECT succeeds, a user whose username is the submitted one with surrounding
\* whitespace trimmed exists and is active, and the password verifies; the identity
\* is exactly id, username and email; every other case is the generic failure.
C4_IdentityIff ==
    [][LoginStep =>
          LET c == last'.body
              good == {i \in Named(c) : users[i].is_active /\ Verifies(c, i)}
          IN  IF NonEmpty(c.username) /\ NonEmpty(c.password) /\ ~last'.ans.fault
                    /\ good # {}
              THEN \E i \in good : last'.resp.result = IdentityOf(i)
              ELSE GenericFailure(last'.resp)]_vars

\* C4: a sign-in with a padded username and the right password returned the identity
C4_Witness ==
    /\ last.op = "login"
    /\ last.body = Credentials(JStr(NameAliPadded), JStr(PassOne))
    /\ last.resp.ok
    /\ DOMAIN last.resp.result = {"id", "name", "email"}
    /\ last.resp.result.name = NameAli

-----------------------------------------------------------------------------
(* Properties of registration *)

\* the register input passes the handler's validation
ValidInput(b) ==
    /\ b.parse = "object"
    /\ b.username.t = "string" /\ b.email.t = "string" /\ b.password.t = "string"
    /\ Len(Trim(b.username.v)) >= 3 /\ Len(Trim(b.username.v)) <= 100
    /\ \E i \in 1..Len(b.email.v) : b.email.v[i] = "@"
    /\ \E i \in 1..Len(b.email.v) : b.email.v[i] = "."
    /\ Len(b.password.v) >= 8

\* the username of the input is in the store
UsernamePresent(b) == \E i \in 1..Len(users) : users[i].username = Trim(b.username.v)

\* the email of the input is in the store
EmailPresent(b) ==
    \E i \in 1..Len(users) : users[i].email = ToLowerCase(Trim(b.email.v))

\* a step in which a register request is answered
RegisterAnswered == last'.seq # last.seq /\ last'.op = "register" /\ last'.resp.status # 0

Conflict409 ==
    [status |-> 409, body |-> [success |-> FALSE, error |-> "Username or email already exists"]]

\* C5 as stated: every valid registration whose username or email is already in the
\* store is answered 409 "Username or email already exists", never 500, whichever
\* field collided, and leaves the store unchanged.
C5_ConflictAsStated ==
    [][(RegisterAnswered /\ ValidInput(last'.body)
            /\ (UsernamePresent(last'.body) \/ EmailPresent(last'.body)))
          => last'.resp = Conflict409 /\ users' = users]_vars

\* C5, amended: every valid registration whose INSERT the store executes (no
\* database fault) and whose username or email is already in the store is answered
\* 409 "Username or email already exists", whichever field collided, and leaves the
\* store unchanged.
C5_Conflict ==
    [][(RegisterAnswered /\ ValidInput(last'.body) /\ ~last'.ans.fault
            /\ (UsernamePresent(last'.body) \/ EmailPresent(last'.body)))
          => last'.resp = Conflict409 /\ users' = users]_vars

\* C5: a registration that collides on the email alone (written in another case,
\* with a leading blank) was answered 409
C5_Witness ==
    /\ last.op = "register"
    /\ last.body = Reg(NameBob, MailAUpper, PassTwo)
    /\ last.resp = Conflict409
    /\ ~UsernamePresent(last.body)
    /\ EmailPresent(last.body)

\* C6: no two rows of the user store have the same username (trimmed) and no two
\* have the same email (trimmed and lower-cased).
C6_UsernamesAndEmailsUnique ==
    \A i, j \in 1..Len(users) :
        i # j => /\ Trim(users[i].username) # Trim(users[j].username)
                 /\ ToLowerCase(Trim(users[i].email)) # ToLowerCase(Trim(users[j].email))

\* C6: two rows are stored, two INSERTs were in flight together and the later one
\* was refused
C6_Witness ==
    /\ Len(users) = 2
    /\ last.op = "register"
    /\ last.resp.status = 409
    /\ pending # {}

-----------------------------------------------------------------------------
(* Properties of forgot-password *)

\* the submitted email is a non-empty string with an "@" and a "."
SyntacticallyValidEmail(b) ==
    /\ b.parse = "object"
    /\ b.email.t = "string"
    /\ \E i \in 1..Len(b.email.v) : b.email.v[i] = "@"
    /\ \E i \in 1..Len(b.email.v) : b.email.v[i] = "."

\* a step in which a forgot-password request is answered
ForgotStep == last'.seq # last.seq /\ last'.op = "forgot"

\* the accounts with the submitted email
WithEmail(b) ==
    {i \in 1..Len(users) : users[i].email = ToLowerCase(Trim(b.email.v))}

\* C11: every forgot-password request with a syntactically valid email gets the one
\* success envelope with the one confirmation message, whatever the user store
\* holds (active account, inactive account, none) and whether or not the database
\* lookup fails.
C11_SameConfirmation ==
    [][(ForgotStep /\ SyntacticallyValidEmail(last'.body))
          => last'.resp =
                [status |-> 200,
                 body |-> [success |-> TRUE,
                           data |-> [message |-> "If an account with that email exists, you will receive a password reset link shortly."]]]]_vars

\* C11: the request named an inactive account's email while the database was down
C11_Witness ==
    /\ last.op = "forgot"
    /\ SyntacticallyValidEmail(last.body)
    /\ last.ans.fault
    /\ ~dbUp
    /\ \E i \in WithEmail(last.body) : ~users[i].is_active
    /\ last.resp.status = 200

-----------------------------------------------------------------------------
(* Properties of the response envelope *)

\* the literal error messages of the four operations
FixedMessages ==
    {"Unauthorized",
     "Invalid request body",
     "A valid 10-digit US phone number is required",
     "Lookup date is required",
     "Lookup date must be in MM/DD/YYYY format",
     "History lookup failed. Please try again.",
     "Lookup failed. Please try again.",
     "Username, email, and password are required",
     "Username must be at least 3 characters",
     "Username is too long",
     "Please enter a valid email address",
     "Password must be at least 8 characters",
     "Username or email already exists",
     "Registration failed. Please try again.",
     "Email address is required",
     "Request failed. Please try again."}

\* the last request was answered by one of the four JSON operations
Answered == last.op \in {"register", "forgot", "lookup", "history"} /\ last.resp.status # 0

\* C12: every response of register, forgot-password, lookup and history is an
\* envelope {success, data?, error?}; a failure has success = false and an error
\* taken from the fixed literal messages, whatever fault the database raised.
C12_EnvelopeAndFixedMessages ==
    Answered =>
        LET b == last.resp.body
        IN  /\ "success" \in DOMAIN b
            /\ DOMAIN b \subseteq {"success", "data", "error"}
            /\ b.success \in BOOLEAN
            /\ last.resp.status >= 400 <=> ~b.success
            /\ ~b.success => /\ DOMAIN b = {"success", "error"}
                             /\ b.error \in FixedMessages
            /\ b.success => "error" \notin DOMAIN b

\* C12: the stored procedure of a lookup failed and the request was answered 500
C12_Witness ==
    /\ last.op = "lookup"
    /\ Len(last.calls) = 2
    /\ last.ans.fault
    /\ last.resp.status = 500
    /\ last.resp.body.error = "Lookup failed. Please try again."

-----------------------------------------------------------------------------
(* Properties of the validation of register *)

\* a field is a string or is missing
StringOrMissing(x) == x.t \in {"string", "null", "undefined"}

\* a field is missing: absent, null or empty
Missing(x) == x.t \in {"null", "undefined"} \/ x.v = <<>>

\* the register input is invalid: a missing field, a trimmed username shorter than
\* 3 or longer than 100, an email without "@" or without ".", or a password shorter
\* than 8
InvalidInput(b) ==
    /\ b.parse = "object"
    /\ StringOrMissing(b.username) /\ StringOrMissing(b.email) /\ StringOrMissing(b.password)
    /\ \/ Missing(b.username) \/ Missing(b.email) \/ Missing(b.password)
       \/ Len(Trim(b.username.v)) < 3
       \/ Len(Trim(b.username.v)) > 100
       \/ \A i \in 1..Len(b.email.v) : b.email.v[i] # "@"
       \/ \A i \in 1..Len(b.email.v) : b.email.v[i] # "."
       \/ Len(b.password.v) < 8

\* a step in which a register request arrives or is answered
RegisterStep == last'.seq # last.seq /\ last'.op = "register"

\* C13: a register request with invalid input is answered 400 before any external
\* call: no hash, no pool acquisition, no INSERT in flight, and the user store is
\* unchanged.
C13_InvalidInputRejectedFirst ==
    [][(RegisterStep /\ InvalidInput(last'.body))
          => /\ last'.resp.status = 400
             /\ last'.calls = <<>>
             /\ pending' = pending
             /\ users' = users /\ nextId' = nextId
             /\ poolRef' = poolRef /\ poolsMade' = poolsMade]_vars

\* C13: a username of 101 characters was refused while another registration was in
\* flight
C13_Witness ==
    /\ last.op = "register"
    /\ last.body = Reg(NameLong, MailA, PassOne)
    /\ last.resp = [status |-> 400, body |-> [success |-> FALSE, error |-> "Username is too long"]]
    /\ pending # {}

-----------------------------------------------------------------------------
(* Properties of the two layers of the guard *)

\* the protected pages and the protected API operations
ProtectedPages == {"/dnc-lookup", "/dnc-history"}

\* a step that serves a page load of a protected page
ProtectedPageStep ==
    last'.seq # last.seq /\ last'.op = "page" /\ last'.body.path \in ProtectedPages

\* C14: without a valid session a page load of /dnc-lookup or /dnc-history is
\* redirected to /login by the middleware, and a direct call of the lookup or
\* history API, which the middleware does not cover, is answered 401 by the handler
\* itself before anything else happens.
C14_GuardedAtBothLayers ==
    [][/\ (ProtectedPageStep /\ ~ValidSession(last'.token))
            => last'.resp = [status |-> 307, body |-> [redirect |-> "/login"]]
       /\ (ProtectedStep /\ ~ValidSession(last'.token))
            => /\ ApiPath(last'.op) \notin Matcher
               /\ last'.resp.status = 401
               /\ last'.resp.body = [success |-> FALSE, error |-> "Unauthorized"]
               /\ last'.calls = <<>>]_vars

\* C14: a page load of /dnc-history with an expired token was redirected
C14_Witness ==
    /\ last.op = "page"
    /\ last.body.path = "/dnc-history"
    /\ Intact(last.token)
    /\ ~ValidSession(last.token)
    /\ last.resp.status = 307

\* C14: a direct call of the history API with an expired token was refused
C14_WitnessApi ==
    /\ last.op = "history"
    /\ Intact(last.token)
    /\ ~ValidSession(last.token)
    /\ last.resp.status = 401

-----------------------------------------------------------------------------
(* Properties of the log *)

\* sub occurs in s
Contains(s, sub) ==
    \E i \in 1..(Len(s) - Len(sub) + 1) : SubSeq(s, i, i + Len(sub) - 1) = sub

\* the string fields of a written record: the message and the string metadata
StringFields(info) ==
    {info.message} \cup {info.meta[k].v : k \in {f \in DOMAIN info.meta : info.meta[f].t = "string"}}

\* the writings of the first six digits d of a phone number
FirstSixWritings(d) ==
    LET a == SubSeq(d, 1, 3)
        b == SubSeq(d, 4, 6)
    IN  {a \o b, <<"(">> \o a \o <<")">> \o b, <<"(">> \o a \o <<")", " ">> \o b}
            \cup {a \o <<sep>> \o b : sep \in {"-", ".", " "}}

\* the request carried a phoneNumber string with exactly 10 digits
TenDigitPhone(r) ==
    /\ Protected(r)
    /\ r.body.parse = "object"
    /\ r.body.phoneNumber.t = "string"
    /\ Cardinality(DigitPositions(r.body.phoneNumber.v)) = 10

\* C15: for a lookup or history request with a 10-digit phone in any format, every
\* info line the transports write renders the phone as "***-***-" and its last four
\* digits, and no written field shows the first six digits in any writing.
C15_PhoneMaskedInLog ==
    TenDigitPhone(last) =>
        LET d == DigitsInOrder(last.body.phoneNumber.v)
            written == Emit(last.log)
        IN  \A i \in 1..Len(written) :
                /\ written[i].info.level = "info"
                      => Contains(written[i].info.message,
                                  <<"*", "*", "*", "-", "*", "*", "*", "-">> \o SubSeq(d, 7, 10))
                /\ \A f \in StringFields(written[i].info) :
                      \A w \in FirstSixWritings(d) : ~Contains(f, w)

\* C15: a lookup with a dotted phone number succeeded; both of its log lines were
\* written to the console and to the file
C15_Witness ==
    /\ last.op = "lookup"
    /\ last.body.phoneNumber = JStr(PhoneDot)
    /\ last.resp.status = 200
    /\ Len(Emit(last.log)) = 4


\* the text shows a 10-digit phone number: ten digits in a row that stand alone, or
\* NXX NXX XXXX with "-", "." or a blank between the groups, or (NXX) NXX-XXXX
ShowsPhone(f) ==
    \E i \in 1..Len(f) :
        \/ /\ DigitsAt(f, i, 10)
           /\ i = 1 \/ ~IsDigit(f[i - 1])
           /\ i + 10 > Len(f) \/ ~IsDigit(f[i + 10])
        \/ /\ DigitsAt(f, i, 3) /\ DigitsAt(f, i + 4, 3) /\ DigitsAt(f, i + 8, 4)
           /\ f[i + 3] \in {"-", ".", " "} /\ f[i + 7] \in {"-", ".", " "}
        \/ /\ f[i] = "(" /\ DigitsAt(f, i + 1, 3) /\ DigitsAt(f, i + 6, 3) /\ DigitsAt(f, i + 10, 4)
           /\ f[i + 4] = ")" /\ f[i + 5] = " " /\ f[i + 9] = "-"

\* C16: whatever is logged, no sink (console, application file, exception and
\* rejection transports) writes a record with an unmasked 10-digit phone number in
\* its message or in another string field.
C16_EverySinkMasks ==
    LET written == WrittenFor(last)
    IN  \A i \in 1..Len(written) :
            \A f \in StringFields(written[i].info) : ~ShowsPhone(f)

\* C16 for the transports of the logger alone: the console and the application file
C16_LoggerTransportsMask ==
    LET written == Emit(last.log)
    IN  \A i \in 1..Len(written) :
            \A f \in StringFields(written[i].info) : ~ShowsPhone(f)

-----------------------------------------------------------------------------
(* Properties of the configuration *)

\* the last event was a request to one of the five operations
IsRequest(r) == r.op \in {"register", "login", "forgot", "lookup", "history"}

\* the request called getPool()
AcquiredPool(r) == \E i \in 1..Len(r.calls) : r.calls[i] = [fn |-> "getPool"]

\* C17: a process whose database configuration (server, database, user, password)
\* is incomplete serves no request that needs the database: the missing
\* configuration is fatal at startup and never the failure of one request.
C17_MissingConfigFatalAtStartup ==
    (IsRequest(last) /\ AcquiredPool(last)) => RequiredEnv \subseteq dbConfig

-----------------------------------------------------------------------------
(* Properties of termination *)

\* a step in which a waiting request is answered after the database timed out
TimedOutStep ==
    /\ last'.seq # last.seq
    /\ Cardinality(pending') < Cardinality(pending)
    /\ last'.ans.fault

\* the generic failure of an operation
FailureOutcome(r) ==
    IF r.op = "login" THEN GenericFailure(r.resp)
    ELSE /\ r.resp.status = 500
         /\ r.resp.body.success = FALSE
         /\ r.resp.body.error \in {"Registration failed. Please try again.",
                                   "Request failed. Please try again.",
                                   "Lookup failed. Please try again.",
                                   "History lookup failed. Please try again."}

\* the requests that SpecLive lets wait for the database
LiveWaiting == LiveRequests \cup {InFlight(AliceBody, "salt1")}

\* no request waits forever, and a request stops waiting by being answered
EveryRequestAnswered ==
    /\ \A p \in LiveWaiting : []<>(p \notin pending)
    /\ [][pending' # pending /\ pending' \subseteq pending => last'.resp # Pending]_vars

\* C18 as stated: every request to register, login, forgot-password, lookup and
\* history is eventually answered, and when the connection or the query times out
\* the answer is the generic failure.
C18_AnsweredAsStated ==
    /\ EveryRequestAnswered
    /\ [][TimedOutStep => FailureOutcome(last')]_vars

\* C18, amended: every request to register, login, forgot-password, lookup and
\* history is eventually answered; when the connection or the query times out the
\* answer of register, login, lookup and history is the generic failure, and the
\* answer of forgot-password is its usual confirmation.
C18_Answered ==
    /\ EveryRequestAnswered
    /\ [][TimedOutStep =>
             IF last'.op = "forgot"
             THEN last'.resp.status = 200 /\ last'.resp.body.success
             ELSE FailureOutcome(last')]_vars

\* C18: a lookup was answered 500 after a timeout while another request still waits
C18_Witness ==
    /\ last.op = "lookup"
    /\ last.ans.fault
    /\ last.resp.status = 500
    /\ pending # {}


\* the step is a request whose handler called getPool()
GetPoolCalled ==
    /\ last'.seq # last.seq
    /\ last'.calls # <<>>
    /\ Head(last'.calls) = CallGetPool

\* C19: once a pool has emitted "error" after its connection dropped, no later
\* getPool() call returns it (the call creates a new pool instead), under either
\* NODE_ENV; and a pool is created only by a step that calls getPool().
C19_RecreatedAfterError ==
    /\ [][GetPoolCalled /\ ~GetPoolThrows => poolRef' \notin dropped]_vars
    /\ [][poolsMade' # poolsMade => GetPoolCalled]_vars

\* the part of C19 that the code keeps: the production branch never returns a pool
\* that emitted "error", and no pool is created outside a getPool() call
C19_ProductionRecreates ==
    /\ [][nodeEnv = "production" /\ GetPoolCalled /\ ~GetPoolThrows
            => poolRef' \notin dropped]_vars
    /\ [][poolsMade' # poolsMade => GetPoolCalled]_vars


\* the account the token names is inactive
HolderInactive(t) ==
    \E i \in 1..Len(users) : ToString(users[i].id) = t.uid /\ ~users[i].is_active

\* the token was minted by the issuer and its expiry lies ahead
IssuedAndUnexpired(t) == t \in issued /\ clock * TickSeconds < t.exp

\* C20: the server has no revocation: a validly issued token is accepted by the
\* guard of lookup and history until its expiry, also after its holder signed out
\* and after the holder's is_active was set to false; the guard accepts exactly the
\* issued, unexpired tokens, whatever the user store holds.
C20_NoRevocation ==
    /\ [][ProtectedStep /\ IssuedAndUnexpired(last'.token)
             /\ (last'.token \in signedOut \/ HolderInactive(last'.token))
            => last'.resp.status # 401]_vars
    /\ [][ProtectedStep
            => (last'.resp.status = 401 <=> ~IssuedAndUnexpired(last'.token))]_vars

\* C20: four hours after sign-in a lookup was served with the token of a holder who
\* had signed out and whose account was inactive
C20_Witness ==
    /\ last.op = "lookup"
    /\ last.resp.status = 200
    /\ last.token \in signedOut
    /\ HolderInactive(last.token)
    /\ clock * TickSeconds - last.token.iat = 4 * 60 * 60


\* the input of the request is malformed: the body does not parse, or parses to
\* something that is not an object, or holds a field that is not a string
Malformed(r) ==
    \/ r.body.parse # "object"
    \/ \E f \in DOMAIN r.body \ {"parse"} : r.body[f].t = "number"

\* C21: on register, forgot-password, lookup and history (the latter two with a valid
\* session) a request whose input is malformed (unparseable body, a body that is
\* not an object, a field that is not a string) is answered with a status in
\* 400..499, never with 500.
C21_MalformedIsClientError ==
    (Answered /\ Malformed(last) /\ (Protected(last) => Intact(last.token)))
        => last.resp.status \in 400..499


\* the request met a database or decision-service fault: getPool() threw, or the
\* query or the stored procedure failed (a uniqueness conflict is not a fault)
UpstreamFault(r) ==
    /\ r.op \in {"register", "lookup", "history"}
    /\ r.resp # Pending
    /\ r.ans.fault
    /\ \E i \in 1..Len(r.calls) : r.calls[i] = CallGetPool

\* the handler logged the fault at level error
FaultLogged(r) ==
    IF r.op = "register"
    THEN r.audit = "unhandled error"
    ELSE \E i \in 1..Len(r.log) : r.log[i].level = "error" /\ "err" \in DOMAIN r.log[i].meta

\* C22: on register, lookup and history a database or decision-service fault that
\* is not a uniqueness conflict is logged server-side and answered with status 500,
\* success false and the operation's generic "try again" message.
C22_FaultIsLoggedAndGeneric ==
    UpstreamFault(last)
        => /\ FaultLogged(last)
           /\ last.resp.status = 500
           /\ last.resp.body.success = FALSE
           /\ last.resp.body.error =
                  (CASE last.op = "register" -> "Registration failed. Please try again."
                     [] last.op = "lookup" -> "Lookup failed. Please try again."
                     [] last.op = "history" -> "History lookup failed. Please try again.")

\* C22: a lookup whose stored procedure failed was answered 500
C22_Witness ==
    /\ last.op = "lookup"
    /\ UpstreamFault(last)
    /\ Len(last.calls) = 2
    /\ last.resp.status = 500


\* a 201 adds the row of the submitted (u, e, p): username u trimmed, email e
\* trimmed and lower-cased, a digest that verifies p, active
CreatedFromInput ==
    [][(RegisterAnswered /\ last'.resp.status = 201)
          => /\ Len(users') = Len(users) + 1
             /\ SubSeq(users', 1, Len(users)) = users
             /\ LET row == users'[Len(users')]
                     b == last'.body
                IN  /\ row.username = Trim(b.username.v)
                    /\ row.email = ToLowerCase(Trim(b.email.v))
                    /\ row.password_hash.pw = b.password.v
                    /\ row.is_active]_vars

\* a sign-in with the username of a stored row and another password than its own
\* fails
OtherPasswordFails ==
    [][(LoginStep /\ NonEmpty(last'.body.username) /\ NonEmpty(last'.body.password)
            /\ Named(last'.body) # {}
            /\ \A i \in Named(last'.body) : ~Verifies(last'.body, i))
          => GenericFailure(last'.resp)]_vars

\* C23 as stated: after a register with (u, e, p) is answered 201 and while the
\* created user stays active, a login with u and p yields the identity of that user
\* (username u trimmed, email e trimmed and lower-cased), a login with u and another
\* password fails, and a second register with the same username and a different
\* email is answered 409.
C23_RoundTripAsStated ==
    /\ CreatedFromInput
    /\ [][(LoginStep /\ NonEmpty(last'.body.username) /\ NonEmpty(last'.body.password)
             /\ \E i \in Named(last'.body) : users[i].is_active /\ Verifies(last'.body, i))
           => \E i \in Named(last'.body) : last'.resp.ok /\ last'.resp.result = IdentityOf(i)]_vars
    /\ OtherPasswordFails
    /\ [][(RegisterAnswered /\ ValidInput(last'.body) /\ UsernamePresent(last'.body)
             /\ ~EmailPresent(last'.body))
           => last'.resp = Conflict409]_vars

\* C23, amended: as C23, for the logins and the second register that the database
\* answers: a login or a second register that meets a database fault ends in its
\* generic failure (login) or in 500 (register).
C23_RoundTrip ==
    /\ CreatedFromInput
    /\ [][(LoginStep /\ NonEmpty(last'.body.username) /\ NonEmpty(last'.body.password)
             /\ ~last'.ans.fault
             /\ \E i \in Named(last'.body) : users[i].is_active /\ Verifies(last'.body, i))
           => \E i \in Named(last'.body) : last'.resp.ok /\ last'.resp.result = IdentityOf(i)]_vars
    /\ [][(LoginStep /\ last'.ans.fault) => GenericFailure(last'.resp)]_vars
    /\ OtherPasswordFails
    /\ [][(RegisterAnswered /\ ValidInput(last'.body) /\ UsernamePresent(last'.body)
             /\ ~EmailPresent(last'.body))
           => IF last'.ans.fault THEN last'.resp.status = 500 ELSE last'.resp = Conflict409]_vars

\* C23: the user registered as (" ali ", " A@X.c", "password") signed in as " ali "
\* and got the identity ali, a@x.c, after a second registration of ali was refused
C23_Witness ==
    /\ last.op = "login"
    /\ last.body = Credentials(JStr(NameAliPadded), JStr(PassOne))
    /\ last.resp.ok
    /\ last.resp.result.name = NameAli
    /\ last.resp.result.email = MailA
    /\ nextId = 3
    /\ Len(users) = 1


\* a step in which the store executes, or fails to execute, the INSERT of a
\* register request and the request is answered
InsertStep == RegisterAnswered /\ pending' # pending /\ pending' \subseteq pending

\* after the step the username or the email of the input is in the store
TakenAfter(b) ==
    \E i \in 1..Len(users') :
        users'[i].username = Trim(b.username.v) \/ users'[i].email = ToLowerCase(Trim(b.email.v))

\* the handler makes no check-then-insert: it reaches its INSERT having called only
\* bcrypt.hash and getPool(), and a request that is accepted reads nothing
NoCheckThenInsert ==
    [][(RegisterStep /\ last'.calls # <<>>)
          => /\ \A i \in 1..Len(last'.calls) :
                    last'.calls[i].fn \in {"bcrypt.hash", "getPool", "query"}
             /\ \A i \in 1..Len(last'.calls) :
                    last'.calls[i].fn = "query" => last'.calls[i].proc = "INSERT"
             /\ Cardinality({i \in 1..Len(last'.calls) : last'.calls[i].fn = "query"}) <= 1]_vars

\* C24 as stated: of the register requests with the same username (or email) that
\* run concurrently against a store without it, the first whose INSERT runs is
\* answered 201 and adds one row, every later one is answered 409 and adds none,
\* and none is answered 500; the handler has no check-then-insert step.
C24_OneWinnerAsStated ==
    /\ [][InsertStep =>
             LET b == last'.body
                 taken == UsernamePresent(b) \/ EmailPresent(b)
             IN  /\ last'.resp.status = (IF taken THEN 409 ELSE 201)
                 /\ users' = (IF taken THEN users ELSE Append(users, users'[Len(users')]))
                 /\ TakenAfter(b)]_vars
    /\ NoCheckThenInsert

\* C24, amended: as C24 for the requests whose INSERT the store executes; a request
\* whose INSERT meets a database fault is answered 500 and adds no row.
C24_OneWinner ==
    /\ [][InsertStep =>
             LET b == last'.body
                 taken == UsernamePresent(b) \/ EmailPresent(b)
             IN  IF last'.ans.fault
                 THEN last'.resp.status = 500 /\ users' = users
                 ELSE /\ last'.resp.status = (IF taken THEN 409 ELSE 201)
                      /\ users' = (IF taken THEN users ELSE Append(users, users'[Len(users')]))
                      /\ TakenAfter(b)]_vars
    /\ NoCheckThenInsert

\* C24: of two registrations of one username that are in flight together, one has
\* just been answered 201 and added the only row, and the other still awaits its
\* INSERT
C24_Witness ==
    /\ last.op = "register"
    /\ last.resp.status = 201
    /\ Len(users) = 1
    /\ \E p \in pending :
          /\ p.username = Trim(last.body.username.v)
          /\ p.email # ToLowerCase(Trim(last.body.email.v))


\* the calls of the request, by name, in the order in which they were made
CallNames(r) == [i \in 1..Len(r.calls) |-> r.calls[i].fn]

\* C25: authenticate checks in the order empty input, user lookup, active flag,
\* password verification, and stops at the first check that fails: with an empty
\* username or password the user store is not queried; for a username no row has
\* and for an inactive user the password hasher is not invoked, so an inactive user
\* fails even with the right password.
C25_ChecksInOrder ==
    [][LoginStep =>
          LET c == last'.body
              names == CallNames(last')
          IN  /\ \E n \in 0..3 : names = SubSeq(<<"getPool", "query", "bcrypt.compare">>, 1, n)
              /\ (~NonEmpty(c.username) \/ ~NonEmpty(c.password))
                    => names = <<>> /\ GenericFailure(last'.resp)
              /\ (NonexistentCase(c) \/ InactiveCase(c))
                    => /\ \A i \in 1..Len(names) : names[i] # "bcrypt.compare"
                       /\ GenericFailure(last'.resp)
              /\ (Len(names) = 3) => \E i \in Named(c) : users[i].is_active]_vars

\* C25: an inactive user signed in with the right password and failed after the
\* lookup, without a call of the hasher
C25_Witness ==
    /\ last.op = "login"
    /\ \E i \in Named(last.body) : ~users[i].is_active /\ Verifies(last.body, i)
    /\ CallNames(last) = <<"getPool", "query">>
    /\ ~last.resp.ok


\* C26 as stated: a submitted username that is not character for character the
\* username of a stored row is treated as not found, and the sign-in fails; the
\* stored name with whitespace added in front or behind is such a name.
C26_ExactMatchAsStated ==
    [][LoginStep =>
          LET c == last'.body
          IN  (NonEmpty(c.username) /\ NonEmpty(c.password) /\ NamedExactly(c) = {})
                 => ~last'.resp.ok]_vars

\* C26: authenticate looks the user up by exact match on the submitted username
\* with the whitespace around it removed: when no stored username equals the
\* trimmed name the sign-in fails, as not found unless the database failed; a
\* sign-in that succeeds returns the row whose username is the trimmed name, and
\* a "not found" is answered only when no row has the trimmed name.
C26_ExactMatchOfTrimmed ==
    [][LoginStep =>
          LET c == last'.body
          IN  (NonEmpty(c.username) /\ NonEmpty(c.password)) =>
                 /\ Named(c) = {}
                       => /\ ~last'.resp.ok
                          /\ last'.audit \in {"user not found", "database error"}
                 /\ last'.resp.ok
                       => \E i \in Named(c) : last'.resp.result.name = users[i].username
                 /\ last'.audit = "user not found" => Named(c) = {}]_vars

\* C26: the stored name with whitespace in front and behind was submitted with the
\* right password, and the row was found by the trimmed name
C26_Witness ==
    /\ last.op = "login"
    /\ NamedExactly(last.body) = {}
    /\ Named(last.body) # {}
    /\ last.body.username.v # Trim(last.body.username.v)
    /\ last.resp.ok
    /\ last.resp.result.name = Trim(last.body.username.v)


\* the kinds of audit line authorize writes
AuditBranches ==
    {"missing credentials", "user not found", "account inactive", "wrong password", "success",
     "database error"}

\* the branch of authorize a sign-in takes, from its input, the rows of the user
\* store and whether the database failed
BranchTaken(r) ==
    IF ~NonEmpty(r.body.username) \/ ~NonEmpty(r.body.password) THEN "missing credentials"
    ELSE IF r.ans.fault THEN "database error"
    ELSE IF Named(r.body) = {} THEN "user not found"
    ELSE IF \A i \in Named(r.body) : ~users[i].is_active THEN "account inactive"
    ELSE IF \A i \in Named(r.body) : ~Verifies(r.body, i) THEN "wrong password"
    ELSE "success"

\* the text s begins with the text p
BeginsWith(s, p) == Len(p) <= Len(s) /\ SubSeq(s, 1, Len(p)) = p

\* C27: every call of authenticate writes exactly one audit log line, and the
\* line identifies the branch taken (missing credentials, user not found, account
\* inactive, wrong password, success, database error): its text is the text of
\* that branch and of no other branch, although every branch but success gives
\* the same external result.
C27_OneAuditLinePerBranch ==
    [][LoginStep =>
          LET b == BranchTaken(last')
              line == last'.log[1]
          IN  /\ Len(last'.log) = 1
              /\ last'.audit = b
              /\ \A k \in AuditBranches : BeginsWith(line.message, AuditText(k)) <=> k = b
              /\ line.level = IF b = "success" THEN "info"
                              ELSE IF b = "database error" THEN "error" ELSE "warn"
              /\ b # "success" => GenericFailure(last'.resp)
              /\ b = "success" => last'.resp.ok]_vars

\* C27: a sign-in with a wrong password was refused like every other failure, and
\* its one audit line names the wrong password and the submitted username
C27_Witness ==
    /\ last.op = "login"
    /\ \E i \in Named(last.body) : users[i].is_active /\ ~Verifies(last.body, i)
    /\ ~last.resp.ok
    /\ Len(last.log) = 1
    /\ last.log[1].level = "warn"
    /\ last.log[1].message = AuditText("wrong password") \o last.body.username.v
    /\ ~BeginsWith(last.log[1].message, AuditText("user not found"))


-----------------------------------------------------------------------------
(* Properties of overlapping getPool() calls *)

\* C28: getPool() yields a singleton: while a connected pool is referenced no call
\* creates another pool, and when calls overlap while there is no healthy pool at
\* most one pool is created; every call that returns a pool returns the referenced
\* pool, and no pool that was created and has not failed is left unreferenced.
C28_Singleton ==
    /\ [][(poolRef # 0 /\ poolUp) => poolsMade' = poolsMade]_vars
    /\ [][(last'.seq # last.seq /\ last'.op = "getPool" /\ last'.resp.ok)
             => last'.resp.pool = poolRef']_vars
    /\ [](\A pool \in 1..poolsMade : pool \notin dropped => pool = poolRef)

\* C29: in the production branch an error event of a pool that has been replaced
\* never discards the current pool: the pool reference is cleared only when the
\* pool that emitted the error is the one referenced.
C29_StaleErrorKeepsCurrent ==
    [][(nodeEnv = "production" /\ poolRef # 0 /\ poolRef' = 0) => poolRef \in dropped']_vars


-----------------------------------------------------------------------------
(* The frame of the operations *)

\* a request of the operation op was answered in this step
AnsweredStep(op) == last'.seq # last.seq /\ last'.op = op

\* C30: login, forgot-password, lookup and history never change the user store,
\* and register changes it only by adding at most one row, with a 201 response;
\* no step deletes a row or changes the id, username, email or password hash of an
\* existing row (is_active changes only outside the operations), and a lookup or
\* history request changes neither the store nor the sessions issued.
C30_Frame ==
    [][/\ \A op \in {"login", "forgot", "lookup", "history"} : AnsweredStep(op) => users' = users
       /\ AnsweredStep("register")
             => /\ Len(users') \in {Len(users), Len(users) + 1}
                /\ SubSeq(users', 1, Len(users)) = users
                /\ Len(users') = Len(users) + 1 <=> last'.resp.status = 201
       /\ Len(users') > Len(users) => AnsweredStep("register")
       /\ Len(users') >= Len(users)
       /\ \A i \in 1..Len(users) :
             /\ users'[i].id = users[i].id
             /\ users'[i].username = users[i].username
             /\ users'[i].email = users[i].email
             /\ users'[i].password_hash = users[i].password_hash
             /\ users'[i].is_active # users[i].is_active => last' = last
       /\ (AnsweredStep("lookup") \/ AnsweredStep("history"))
             => /\ nextId' = nextId
                /\ issued' = issued
                /\ pending' = pending]_vars

\* C30: a history request was answered from the decision service after two
\* registrations, a conflicting one between them and a deactivation; both rows are
\* there with their ids, names and emails
C30_Witness ==
    /\ last.op = "history"
    /\ last.resp.status = 200
    /\ Len(users) = 2
    /\ nextId = 4
    /\ users[1].id = 1 /\ users[1].username = NameAli /\ users[1].email = MailA
    /\ users[2].id = 3 /\ users[2].username = NameBob /\ users[2].email = MailB
    /\ ~users[2].is_active

=============================================================================
